---- MODULE Spec2Model ----
(***************************************************************************)
(* A model of the turn-orchestration engine of agent-bedrock: the memory   *)
(* manager, the tool executor, the MCP client manager and its tool filter, *)
(* the streaming accumulator, the retry handler and the two conversation   *)
(* loops of the Agent class.  Every component has its own specification    *)
(* over the shared variables; a component that a specification does not    *)
(* exercise stays in its idle state.                                       *)
(***************************************************************************)
EXTENDS Integers, Sequences, FiniteSets, TLC

VARIABLES
    \* MemoryManager (src/src/types/index.ts)
    shortTermMemory,    \* Message[]: the short-term buffer
    maxMessages,        \* readonly limit, set by the constructor
    maxTokens,          \* readonly limit, set by the constructor
    messagesPruned,     \* totalPruned of the last pruneMemory call
    lastOp,             \* the last MemoryManager call and its argument
    \* RetryHandler.executeWithRetry (src/src/utils/retry.ts)
    retryConfig,        \* maxRetries, baseDelay, maxDelay
    retryPc,            \* "idle", "loop", "sleeping", "returned", "thrown"
    attempt,            \* the local variable attempt
    lastError,          \* the local variable lastError
    invocations,        \* how many times operation() was invoked
    waits,              \* how many times sleep(delay) was awaited
    lastDelay,          \* the delay of the last sleep
    \* McpServerConnection tool cache (src/src/mcp/connection.ts)
    connFilter,         \* config.toolFilter
    connFetched,        \* the tools of the last listTools response
    connTools,          \* Map<string, McpTool> tools, in insertion order
    \* ToolExecutor and McpClientManager
    localTools,         \* ToolExecutor.tools: Map<string, ToolDefinition>
    connections,        \* McpClientManager.connections: Map<string, connection>
    toolsOut,           \* the last call on the executor and what it gave
    \* one streamed model call of processStreamingConversationTurn
    streamPc,           \* "idle", "streaming", "stopped", "appended", "failed"
    streamEvents,       \* the events the stream handler has yielded so far
    accumulatedContent, \* ContentBlock[] under construction
    currentToolUseInput,\* the JSON text buffered for tool input
    stopReason,         \* the stop reason of the call
    \* one turn of Agent.converse / Agent.converseStream
    turnPath,           \* "idle", "converse" or "converseStream"
    turnPc,             \* "idle", "loop", "tools", "done"
    iteration,          \* the loop counter of the turn
    modelCalls,         \* model calls that returned a response in this turn
    toolUseCalls,       \* those with stop reason tool_use and a tool-use block
    lastResponse,       \* the last model response
    pendingToolUses,    \* tool uses of the iteration not yet executed
    toolResults,        \* tool results of the iteration so far
    turnResult,         \* how the turn ended, and the error thrown
    errorEvents,        \* codes of the error events yielded to the caller
    \* one call of Agent.converse / Agent.converseStream around the turn
    sessPc,             \* "idle", "start", "loaded", "loop", "returned", "thrown"
    sessionInput,       \* input.sessionId and config.memory.longTerm, as present or not
    hookCalls,          \* the calls of the long-term fetch and save callbacks
    converseResponse,   \* the ConverseResponse handed to the caller
    \* McpClientManager: what an operation asked of the servers
    serverCalls,        \* the transport opens, closes and calls of the last operation
    \* one McpServerConnection: status and reconnection (src/src/mcp/connection.ts)
    connStatus,         \* status: state, and attempt when reconnecting
    reconnectConfig,    \* config.reconnect: enabled, maxAttempts, baseDelay, maxDelay
    reconnectAttempts,  \* the counter reconnectAttempts
    reconnectPc,        \* "idle", "connecting", "sleeping", "rejected", "connected", "failed"
    connectCalls,       \* how many times connect() opened a transport
    backoffWaits,       \* the delays slept between reconnection attempts
    \* the wall clock of one streamed model call
    elapsedMs,          \* Date.now() - streamStartTime
    \* the tool calls of one iteration of the turn loop
    runningTools,       \* the tool uses whose executeTool call has started and not settled
    \* successive converse / converseStream calls on one agent
    turnsCompleted,     \* the calls that have ended, by a return or by a throw
    \* the agent's configuration and the building of a model request
    mcpConnectionPromises,\* the promises of the constructor's connects: server name and state
    initWarnings,       \* servers logged as failed to connect during initialization
    configSystemPrompts,\* config.systemPrompts
    requestPc,          \* "idle", "awaiting" (in ensureMcpReady), "built", "failed"
    requestInput,       \* input.systemPrompts of the call whose request is built
    \* one turn taken by converse and by converseStream on the same model outputs
    bufferedMemory,     \* the MemoryStore of the agent taking the turn by converse
    streamedMemory,     \* the MemoryStore of the agent taking it by converseStream
    bufferedCalls,      \* the tool uses converse handed to executeTool, in order
    streamedCalls,      \* the tool uses converseStream handed to executeTool, in order
    equivPc,            \* "loop" or "done"
    equivModelCalls,    \* the model calls of the turn so far
    \* McpClientManager.connect and close as interleaved asynchronous calls
    opened,             \* every McpServerConnection a connect call has constructed
    closePc,            \* where the close() call stands
    closing,            \* the connections close() has asked to disconnect
    lastConnect         \* the connect call that settled last and what it threw

memVars == <<shortTermMemory, maxMessages, maxTokens, messagesPruned, lastOp>>

retryVars == <<retryConfig, retryPc, attempt, lastError, invocations, waits, lastDelay>>

filterVars == <<connFilter, connFetched, connTools>>

toolVars == <<localTools, connections, toolsOut>>

streamVars == <<streamPc, streamEvents, accumulatedContent, currentToolUseInput, stopReason>>

turnVars == <<turnPath, turnPc, iteration, modelCalls, toolUseCalls, lastResponse,
              pendingToolUses, toolResults, turnResult, errorEvents>>

sessionVars == <<sessPc, sessionInput, hookCalls, converseResponse>>

poolVars == <<serverCalls>>

lifeVars == <<connStatus, reconnectConfig, reconnectAttempts, reconnectPc, connectCalls, backoffWaits>>

clockVars == <<elapsedMs>>

execVars == <<runningTools>>

histVars == <<turnsCompleted>>

requestVars == <<mcpConnectionPromises, initWarnings, configSystemPrompts, requestPc, requestInput>>

equivVars == <<bufferedMemory, streamedMemory, bufferedCalls, streamedCalls, equivPc, equivModelCalls>>

asyncVars == <<opened, closePc, closing, lastConnect>>

\* every group above
coreVars == <<memVars, retryVars, filterVars, toolVars, streamVars, turnVars, sessionVars,
              poolVars, lifeVars>>

\* the groups added for the handlers of the later sections
restVars == <<clockVars, execVars, histVars, requestVars, equivVars, asyncVars>>

notMem == <<retryVars, filterVars, toolVars, streamVars, turnVars, sessionVars, poolVars, lifeVars,
             restVars>>

notTools == <<memVars, retryVars, filterVars, streamVars, turnVars, sessionVars, poolVars, lifeVars,
               restVars>>

notRetry == <<memVars, filterVars, toolVars, streamVars, turnVars, sessionVars, poolVars, lifeVars,
               restVars>>

notFilter == <<memVars, retryVars, toolVars, streamVars, turnVars, sessionVars, poolVars, lifeVars,
                restVars>>

notStream == <<retryVars, filterVars, toolVars, turnVars, sessionVars, poolVars, lifeVars,
                restVars>>

notTurn == <<retryVars, filterVars, toolVars, streamVars, sessionVars, poolVars, lifeVars,
              restVars>>

vars == <<shortTermMemory, maxMessages, maxTokens, messagesPruned, lastOp,
          retryConfig, retryPc, attempt, lastError, invocations, waits, lastDelay,
          connFilter, connFetched, connTools, localTools, connections, toolsOut,
          streamPc, streamEvents, accumulatedContent, currentToolUseInput, stopReason,
          turnPath, turnPc, iteration, modelCalls, toolUseCalls, lastResponse,
          pendingToolUses, toolResults, turnResult, errorEvents,
          sessPc, sessionInput, hookCalls, converseResponse,
          serverCalls,
          connStatus, reconnectConfig, reconnectAttempts, reconnectPc, connectCalls, backoffWaits,
          elapsedMs,
          runningTools,
          turnsCompleted,
          mcpConnectionPromises, initWarnings, configSystemPrompts, requestPc, requestInput,
          bufferedMemory, streamedMemory, bufferedCalls, streamedCalls, equivPc, equivModelCalls,
          opened, closePc, closing, lastConnect>>

(***************************************************************************)
(* Messages and content blocks (src/src/config/message-types.ts).  A text  *)
(* is a string; a tool input is kept as its JSON text.                     *)
(***************************************************************************)
TextBlock(t) == [type |-> "text", text |-> t]

ImageBlock == [type |-> "image"]

ToolUseBlock(id, name, input) ==
    [type |-> "toolUse", toolUseId |-> id, name |-> name, input |-> input]

ToolResultBlock(id, content, status) ==
    [type |-> "toolResult", toolUseId |-> id, content |-> content, status |-> status]

Msg(role, content) == [role |-> role, content |-> content]

NoMessage == [role |-> "none", content |-> <<>>]

\* an index of a content array that was never assigned
Hole == [type |-> "hole"]

hasHole(content) == \E k \in 1..Len(content) : content[k] = Hole

(***************************************************************************)
(* TokenEstimator (src/src/utils/tokens.ts)                                *)
(***************************************************************************)
charsPerToken == 4

imageTokens == 1000

documentTokens == 500

videoTokens == 2000

messageOverheadTokens == 4

\* Math.ceil(a / b) for a >= 0, b > 0
Ceil(a, b) == (a + b - 1) \div b

estimateText(text) == Ceil(Len(text), charsPerToken)

RECURSIVE estimateContentBlock(_)
RECURSIVE SumBlocks(_)
SumBlocks(blocks) ==
    IF blocks = <<>> THEN 0
    ELSE estimateContentBlock(Head(blocks)) + SumBlocks(Tail(blocks))

estimateContentBlock(content) ==
    CASE content.type = "text" -> estimateText(content.text)
      [] content.type = "image" -> imageTokens
      [] content.type = "document" -> documentTokens
      [] content.type = "video" -> videoTokens
      [] content.type = "toolUse" ->
            estimateText(content.name) + estimateText(content.input)
      [] content.type = "toolResult" -> SumBlocks(content.content)
      [] OTHER -> 1

estimateMessage(message) == messageOverheadTokens + SumBlocks(message.content)

RECURSIVE estimateMessages(_)
estimateMessages(messages) ==
    IF messages = <<>> THEN 0
    ELSE estimateMessage(Head(messages)) + estimateMessages(Tail(messages))

(***************************************************************************)
(* MemoryManager.pruneMemory                                               *)
(***************************************************************************)
\* Array.prototype.slice(n) for 0 <= n <= length
slice(s, n) == SubSeq(s, n + 1, Len(s))

\* while (currentTokens > maxTokens && length > 0) shift()
RECURSIVE pruneByTokens(_, _)
pruneByTokens(mem, maxTok) ==
    IF estimateMessages(mem) > maxTok /\ Len(mem) > 0
    THEN pruneByTokens(Tail(mem), maxTok)
    ELSE mem

pruneByCount(mem, maxMsg) ==
    IF Len(mem) > maxMsg THEN slice(mem, Len(mem) - maxMsg) ELSE mem

\* estimateTokens(messages) throws
estimateThrows(mem) == \E k \in 1..Len(mem) : hasHole(mem[k].content)

\* a prune that forgets the token loop
pruneMemory_countOnly(mem, maxMsg, maxTok) == pruneByCount(mem, maxMsg)

\* a prune that drops the newest messages (pop) instead of the oldest (shift)
pruneMemory_dropNewest(mem, maxMsg, maxTok) ==
    LET kept == pruneByTokens(pruneByCount(mem, maxMsg), maxTok)
    IN  SubSeq(mem, 1, Len(kept))

\* pruneMemory; the estimate iterates every content array and reads the
\* undefined of a hole, a TypeError that leaves the buffer pruned by count only
pruneMemory(mem, maxMsg, maxTok) ==
    IF estimateThrows(pruneByCount(mem, maxMsg))
    THEN pruneByCount(mem, maxMsg)
    ELSE pruneByTokens(pruneByCount(mem, maxMsg), maxTok)

(***************************************************************************)
(* Errors (src/src/errors/index.ts) as the retry handler sees them: the    *)
(* class, the error code, the APIError retryable flag and the name.        *)
(***************************************************************************)
\* APIError.getErrorCode(statusCode); statusCode 0 stands for undefined
getErrorCode(statusCode) ==
    IF statusCode = 0 THEN "API_ERROR"
    ELSE CASE statusCode = 401 -> "API_UNAUTHORIZED"
           [] statusCode = 403 -> "API_FORBIDDEN"
           [] statusCode = 404 -> "API_NOT_FOUND"
           [] statusCode = 429 -> "API_THROTTLED"
           [] statusCode = 504 -> "API_TIMEOUT"
           [] OTHER -> IF statusCode >= 500 THEN "API_INTERNAL_ERROR" ELSE "API_ERROR"

\* APIError.isRetryable(statusCode)
isRetryable(statusCode) ==
    IF statusCode = 0 THEN FALSE
    ELSE statusCode = 429 \/ statusCode = 503 \/ statusCode = 504

\* new APIError(message, statusCode)
APIError(statusCode) ==
    [cls |-> "APIError", name |-> "APIError", statusCode |-> statusCode,
     code |-> getErrorCode(statusCode), retryable |-> isRetryable(statusCode)]

\* another BedrockAgentError subclass (StreamError, ToolExecutionError, ...)
AgentError(name, code) ==
    [cls |-> "BedrockAgentError", name |-> name, statusCode |-> 0,
     code |-> code, retryable |-> FALSE]

\* an error that is no BedrockAgentError (an AWS SDK exception, a TypeError)
PlainError(name) ==
    [cls |-> "Error", name |-> name, statusCode |-> 0, code |-> "", retryable |-> FALSE]

NoError == [cls |-> "none", name |-> "", statusCode |-> 0, code |-> "", retryable |-> FALSE]

\* DEFAULT_RETRY_CONFIG.retryableErrors
retryableErrors == {"API_THROTTLED", "API_TIMEOUT", "API_INTERNAL_ERROR"}

retryableErrorNames ==
    {"ThrottlingException", "TooManyRequestsException", "ServiceUnavailableException",
     "InternalServerError", "RequestTimeout", "TimeoutError", "NetworkingError",
     "ProvisionedThroughputExceededException"}

\* shouldRetry without its attempt check: is the error of a retryable kind
isRetryableError(error) ==
    IF error.cls \in {"APIError", "BedrockAgentError"}
    THEN LET isRetryableCode == error.code \in retryableErrors
         IN  IF error.cls = "APIError"
             THEN error.retryable \/ isRetryableCode
             ELSE isRetryableCode
    ELSE error.name \in retryableErrorNames

\* a shouldRetry that gives up one attempt early
shouldRetry_offByOne(error, att, maxRetries) ==
    IF att >= maxRetries THEN FALSE ELSE isRetryableError(error)

\* RetryHandler.shouldRetry(error, attempt)
shouldRetry(error, att, maxRetries) ==
    IF att > maxRetries THEN FALSE ELSE isRetryableError(error)

RECURSIVE Pow2(_)
Pow2(n) == IF n <= 0 THEN 1 ELSE 2 * Pow2(n - 1)

Min(a, b) == IF a <= b THEN a ELSE b

\* calculateDelay before the jitter: min(baseDelay * 2^(attempt-1), maxDelay)
cappedDelay(att, cfg) == Min(cfg.baseDelay * Pow2(att - 1), cfg.maxDelay)

\* calculateDelay(attempt): floor(cappedDelay * jitter), jitter = 0.5 + random * 0.5
\* with Math.random() in [0, 1): every integer from half the capped delay up to it
\* the same without the cap at maxDelay
calculateDelay_uncapped(att, cfg) ==
    ((cfg.baseDelay * Pow2(att - 1)) \div 2) .. (cfg.baseDelay * Pow2(att - 1))

calculateDelay(att, cfg) == (cappedDelay(att, cfg) \div 2) .. cappedDelay(att, cfg)

(***************************************************************************)
(* The idle state of each component: what its variables hold while a       *)
(* specification exercises another component.                              *)
(***************************************************************************)
MemIdle ==
    /\ shortTermMemory = <<>>
    /\ messagesPruned = 0
    /\ lastOp = [op |-> "new", msg |-> NoMessage]

RetryIdle ==
    /\ retryConfig = [maxRetries |-> 3, baseDelay |-> 100, maxDelay |-> 5000]
    /\ retryPc = "idle"
    /\ attempt = 0
    /\ lastError = NoError
    /\ invocations = 0
    /\ waits = 0
    /\ lastDelay = 0

DEFAULT_MAX_MESSAGES == 50

DEFAULT_MAX_TOKENS == 4000

FilterIdle ==
    /\ connFilter = [defined |-> FALSE, allowedTools |-> {}, deniedTools |-> {}]
    /\ connFetched = <<>>
    /\ connTools = <<>>

ToolsIdle ==
    /\ localTools = <<>>
    /\ connections = <<>>
    /\ toolsOut = [op |-> "none"]

TurnIdle ==
    /\ turnPath = "idle"
    /\ turnPc = "idle"
    /\ iteration = 0
    /\ modelCalls = 0
    /\ toolUseCalls = 0
    /\ lastResponse = [stopReason |-> "none", content |-> <<>>]
    /\ pendingToolUses = <<>>
    /\ toolResults = <<>>
    /\ turnResult = [outcome |-> "none", error |-> NoError]
    /\ errorEvents = <<>>

NoConverseResponse == [message |-> "", stopReason |-> "none", guardrailAction |-> "undefined"]

SessionIdle ==
    /\ sessPc = "idle"
    /\ sessionInput = [sessionId |-> FALSE, longTerm |-> FALSE]
    /\ hookCalls = <<>>
    /\ converseResponse = NoConverseResponse

PoolIdle ==
    /\ serverCalls = <<>>

LifeIdle ==
    /\ connStatus = [state |-> "disconnected", attempt |-> 0]
    /\ reconnectConfig = [enabled |-> TRUE, maxAttempts |-> 3, baseDelay |-> 1000, maxDelay |-> 30000]
    /\ reconnectAttempts = 0
    /\ reconnectPc = "idle"
    /\ connectCalls = 0
    /\ backoffWaits = <<>>

ClockIdle ==
    /\ elapsedMs = 0

ExecIdle ==
    /\ runningTools = <<>>

HistIdle ==
    /\ turnsCompleted = 0

RequestIdle ==
    /\ mcpConnectionPromises = <<>>
    /\ initWarnings = {}
    /\ configSystemPrompts = <<>>
    /\ requestPc = "idle"
    /\ requestInput = <<>>

EquivIdle ==
    /\ bufferedMemory = <<>>
    /\ streamedMemory = <<>>
    /\ bufferedCalls = <<>>
    /\ streamedCalls = <<>>
    /\ equivPc = "idle"
    /\ equivModelCalls = 0

AsyncIdle ==
    /\ opened = <<>>
    /\ closePc = "idle"
    /\ closing = {}
    /\ lastConnect = [name |-> "", thrown |-> "none"]

RestIdle ==
    /\ ClockIdle
    /\ ExecIdle
    /\ HistIdle
    /\ RequestIdle
    /\ EquivIdle
    /\ AsyncIdle

StreamIdle ==
    /\ streamPc = "idle"
    /\ streamEvents = <<>>
    /\ accumulatedContent = <<>>
    /\ currentToolUseInput = ""
    /\ stopReason = "end_turn"

(***************************************************************************)
(* RetryHandler.executeWithRetry                                           *)
(***************************************************************************)
MaxRetriesLimit == 3

RetryDelayConfigs == {<<100, 5000>>, <<100, 250>>, <<3, 5>>}

SampleErrors ==
    { APIError(429), APIError(503), APIError(504), APIError(500), APIError(400),
      APIError(0), AgentError("StreamError", "API_THROTTLED"),
      AgentError("ValidationError", "VALIDATION_ERROR"),
      PlainError("ThrottlingException"), PlainError("TypeError") }

\* new RetryHandler(config) and the entry of executeWithRetry
RetryInit ==
    /\ MemIdle /\ maxMessages = DEFAULT_MAX_MESSAGES /\ maxTokens = DEFAULT_MAX_TOKENS
    /\ FilterIdle /\ ToolsIdle /\ StreamIdle /\ TurnIdle /\ SessionIdle /\ PoolIdle /\ LifeIdle
    /\ RestIdle
    /\ \E n \in 0..MaxRetriesLimit, d \in RetryDelayConfigs :
          retryConfig = [maxRetries |-> n, baseDelay |-> d[1], maxDelay |-> d[2]]
    /\ retryPc = "loop"
    /\ attempt = 0
    /\ lastError = NoError
    /\ invocations = 0
    /\ waits = 0
    /\ lastDelay = 0

\* one pass of the while loop in which operation() resolves
RetryInvokeOk ==
    /\ retryPc = "loop"
    /\ attempt <= retryConfig.maxRetries
    /\ invocations' = invocations + 1
    /\ lastError' = NoError
    /\ retryPc' = "returned"
    /\ UNCHANGED <<retryConfig, attempt, waits, lastDelay>>
    /\ UNCHANGED notRetry

\* one pass of the while loop in which operation() rejects with error
RetryInvokeFail(error) ==
    /\ retryPc = "loop"
    /\ attempt <= retryConfig.maxRetries
    /\ invocations' = invocations + 1
    /\ lastError' = error
    /\ attempt' = attempt + 1
    /\ IF ~shouldRetry(error, attempt + 1, retryConfig.maxRetries)
       THEN retryPc' = "thrown" /\ UNCHANGED <<waits, lastDelay>>
       ELSE IF attempt + 1 > retryConfig.maxRetries
       THEN retryPc' = "thrown" /\ UNCHANGED <<waits, lastDelay>>
       ELSE /\ retryPc' = "sleeping"
            /\ waits' = waits + 1
            /\ lastDelay' \in calculateDelay(attempt + 1, retryConfig)
    /\ UNCHANGED retryConfig
    /\ UNCHANGED notRetry

RetryInvokeError == \E error \in SampleErrors : RetryInvokeFail(error)

\* the timer of sleep(delay) fires
RetrySleepDone ==
    /\ retryPc = "sleeping"
    /\ retryPc' = "loop"
    /\ UNCHANGED <<retryConfig, attempt, lastError, invocations, waits, lastDelay>>
    /\ UNCHANGED notRetry

RetryNext == RetryInvokeOk \/ RetryInvokeError \/ RetrySleepDone

SpecRetry == RetryInit /\ [][RetryNext]_vars

\* C10: executeWithRetry invokes the operation at most maxRetries + 1 times;
\* a success returns at once; a non-retryable error is re-thrown after the
\* failing invocation with no wait; a retryable error is re-thrown only by
\* invocation maxRetries + 1; there is exactly one wait between consecutive
\* invocations and none after the last.
C10_RetryBounded ==
    /\ invocations <= retryConfig.maxRetries + 1
    /\ retryPc = "loop" => waits = invocations /\ attempt = invocations
                           /\ attempt <= retryConfig.maxRetries
    /\ retryPc = "sleeping" => waits = invocations /\ isRetryableError(lastError)
    /\ retryPc = "returned" => waits = invocations - 1 /\ lastError = NoError
    /\ retryPc = "thrown" =>
          /\ waits = invocations - 1
          /\ lastError # NoError
          /\ isRetryableError(lastError) => invocations = retryConfig.maxRetries + 1

C10_Witness ==
    /\ retryPc = "thrown"
    /\ retryConfig.maxRetries = 3
    /\ invocations = 4
    /\ waits = 3
    /\ isRetryableError(lastError)

\* C11 as stated: the wait before retry a lies between half of and the whole
\* of min(baseDelay * 2^(a-1), maxDelay).
C11_DelayAtLeastHalf ==
    retryPc = "sleeping" =>
        /\ 2 * lastDelay >= cappedDelay(attempt, retryConfig)
        /\ lastDelay <= cappedDelay(attempt, retryConfig)

\* C11, amended: the wait before retry a is a whole number of milliseconds
\* between half of min(baseDelay * 2^(a-1), maxDelay) rounded down and the
\* whole of it; it never exceeds maxDelay, its upper bound never decreases
\* with a, and attempt 3 with baseDelay 100 and maxDelay 5000 waits within
\* [200, 400].
C11_DelayWithinBackoff ==
    /\ retryPc = "sleeping" =>
          /\ attempt >= 1
          /\ lastDelay >= cappedDelay(attempt, retryConfig) \div 2
          /\ 2 * lastDelay + 1 >= cappedDelay(attempt, retryConfig)
          /\ lastDelay <= cappedDelay(attempt, retryConfig)
          /\ lastDelay <= retryConfig.maxDelay
          /\ (attempt = 3 /\ retryConfig.baseDelay = 100 /\ retryConfig.maxDelay = 5000)
                => lastDelay \in 200..400
    /\ \A a \in 1..MaxRetriesLimit :
          cappedDelay(a, retryConfig) <= cappedDelay(a + 1, retryConfig)

C11_Witness ==
    /\ retryPc = "sleeping"
    /\ attempt = 2
    /\ retryConfig.baseDelay = 3
    /\ retryConfig.maxDelay = 5
    /\ lastDelay = 2

(***************************************************************************)
(* Bounds and inputs of the memory specification                           *)
(***************************************************************************)
MaxMessagesLimit == 3

MaxFetched == 3

TokenLimits == {1, 9, 14, 1100}

SampleMessages ==
    { Msg("user", <<TextBlock("hi")>>),
      Msg("assistant", <<TextBlock("a longer answer"),
                         ToolUseBlock("t1", "search", "{\"q\":1}")>>),
      Msg("user", <<ToolResultBlock("t1", <<TextBlock("42")>>, "success")>>),
      Msg("user", <<ImageBlock, TextBlock("what is this?")>>) }

RECURSIVE SeqsUpTo(_, _)
SeqsUpTo(S, n) ==
    IF n = 0 THEN {<<>>}
    ELSE LET shorter == SeqsUpTo(S, n - 1)
         IN  shorter \cup {Append(s, x) : s \in {t \in shorter : Len(t) = n - 1}, x \in S}

MemInit ==
    /\ MemIdle
    /\ RetryIdle /\ FilterIdle /\ ToolsIdle /\ StreamIdle /\ TurnIdle /\ SessionIdle /\ PoolIdle /\ LifeIdle
    /\ RestIdle
    /\ maxMessages \in 1..MaxMessagesLimit
    /\ maxTokens \in TokenLimits

\* addMessage(message): push, then pruneMemory()
addMessage(message) ==
    LET pushed == Append(shortTermMemory, message)
        pruned == pruneMemory(pushed, maxMessages, maxTokens)
    IN  /\ shortTermMemory' = pruned
        /\ messagesPruned' = Len(pushed) - Len(pruned)
        /\ lastOp' = [op |-> "addMessage", msg |-> message]
        /\ UNCHANGED <<maxMessages, maxTokens>>

\* clear(): shortTermMemory = []
clear ==
    /\ shortTermMemory' = <<>>
    /\ lastOp' = [op |-> "clear", msg |-> NoMessage]
    /\ UNCHANGED <<maxMessages, maxTokens, messagesPruned>>

\* loadSession(id), the fetch callback resolving with messages
loadSessionOk(messages) ==
    LET pruned == pruneMemory(messages, maxMessages, maxTokens)
    IN  /\ shortTermMemory' = pruned
        /\ messagesPruned' = Len(messages) - Len(pruned)
        /\ lastOp' = [op |-> "loadSession", msg |-> NoMessage]
        /\ UNCHANGED <<maxMessages, maxTokens>>

\* loadSession(id), the fetch callback rejecting: logged and swallowed
loadSessionFailed ==
    /\ lastOp' = [op |-> "loadSessionFailed", msg |-> NoMessage]
    /\ UNCHANGED <<shortTermMemory, maxMessages, maxTokens, messagesPruned>>

MemAddMessage == \E m \in SampleMessages : addMessage(m) /\ UNCHANGED notMem

MemClear == clear /\ UNCHANGED notMem

MemLoadSession ==
    \E ms \in SeqsUpTo(SampleMessages, MaxFetched) : loadSessionOk(ms) /\ UNCHANGED notMem

MemLoadSessionFailed == loadSessionFailed /\ UNCHANGED notMem

MemNext == MemAddMessage \/ MemClear \/ MemLoadSession \/ MemLoadSessionFailed

SpecMemory == MemInit /\ [][MemNext]_vars

IsSuffix(s, t) == Len(s) <= Len(t) /\ s = SubSeq(t, Len(t) - Len(s) + 1, Len(t))

\* C1: after every addMessage, successful loadSession and clear the buffer
\* holds at most maxMessages messages and its token estimate is at most
\* maxTokens, or the buffer is empty.
C1_MemoryWithinLimits ==
    \/ shortTermMemory = <<>>
    \/ /\ Len(shortTermMemory) <= maxMessages
       /\ estimateMessages(shortTermMemory) <= maxTokens

C1_Witness ==
    /\ lastOp.op \in {"addMessage", "loadSession"}
    /\ messagesPruned > 0
    /\ shortTermMemory # <<>>
    /\ Len(shortTermMemory) < maxMessages

\* C2: addMessage(m) leaves a contiguous suffix of (previous buffer followed
\* by m), in unchanged order: pruning only removes from the front.
C2_PruneIsFifo ==
    [][lastOp'.op = "addMessage" =>
         IsSuffix(shortTermMemory', Append(shortTermMemory, lastOp'.msg))]_vars

C2_Witness ==
    /\ lastOp.op = "addMessage"
    /\ messagesPruned > 0
    /\ Len(shortTermMemory) >= 2

(***************************************************************************)
(* MCP tool filtering: filterTools (src/src/mcp/filters.ts) and the tool   *)
(* cache of McpServerConnection (src/src/mcp/connection.ts).  A tool is    *)
(* its name and the server it came from; a Map is the sequence of its      *)
(* values in insertion order, with one entry for each key.                 *)
(***************************************************************************)
McpTool(name, serverName) == [name |-> name, serverName |-> serverName]

\* config.toolFilter: absent, or allowedTools / deniedTools given as the set
\* of names of the array (an absent array and an empty one are both {}).
ToolFilter(allowedTools, deniedTools) ==
    [defined |-> TRUE, allowedTools |-> allowedTools, deniedTools |-> deniedTools]

NoToolFilter == [defined |-> FALSE, allowedTools |-> {}, deniedTools |-> {}]

inAllowedSet(tool, allowedSet) == tool.name \in allowedSet

notInDeniedSet(tool, deniedSet) == tool.name \notin deniedSet

filterByAllowed(tools, filter) ==
    IF Cardinality(filter.allowedTools) > 0
    THEN SelectSeq(tools, LAMBDA tool : inAllowedSet(tool, filter.allowedTools))
    ELSE tools

filterByDenied(tools, filter) ==
    IF Cardinality(filter.deniedTools) > 0
    THEN SelectSeq(tools, LAMBDA tool : notInDeniedSet(tool, filter.deniedTools))
    ELSE tools

\* a filterTools in which a name on the allow-list is kept whatever the
\* deny-list says
filterTools_allowWins(tools, filter) ==
    IF Cardinality(filter.allowedTools) > 0
    THEN filterByAllowed(tools, filter)
    ELSE filterByDenied(tools, filter)

filterTools(tools, filter) == filterByDenied(filterByAllowed(tools, filter), filter)

\* Map.set: a new key goes last, an existing key keeps its place
mapSet(map, tool) ==
    IF \E i \in 1..Len(map) : map[i].name = tool.name
    THEN [i \in 1..Len(map) |-> IF map[i].name = tool.name THEN tool ELSE map[i]]
    ELSE Append(map, tool)

RECURSIVE mapFromList(_)
mapFromList(tools) ==
    IF tools = <<>> THEN <<>>
    ELSE mapSet(mapFromList(SubSeq(tools, 1, Len(tools) - 1)), tools[Len(tools)])

applyToolFilters(map, filter) ==
    IF ~filter.defined THEN map ELSE mapFromList(filterTools(map, filter))

\* the response of listTools as McpTool values
RECURSIVE toolsOfResponse(_, _)
toolsOfResponse(names, serverName) ==
    IF names = <<>> THEN <<>>
    ELSE <<McpTool(Head(names), serverName)>> \o toolsOfResponse(Tail(names), serverName)

refreshTools(names, filter, serverName) ==
    applyToolFilters(mapFromList(toolsOfResponse(names, serverName)), filter)

MaxFetchedTools == 3

FilterToolNames == {"a", "b", "c"}

FilterServerName == "server"

ToolFilters ==
    {NoToolFilter} \cup
    {ToolFilter(al, de) : al \in SUBSET FilterToolNames, de \in SUBSET FilterToolNames}

FilterInit ==
    /\ MemIdle /\ maxMessages = DEFAULT_MAX_MESSAGES /\ maxTokens = DEFAULT_MAX_TOKENS
    /\ RetryIdle /\ ToolsIdle /\ StreamIdle /\ TurnIdle /\ SessionIdle /\ PoolIdle /\ LifeIdle
    /\ RestIdle
    /\ connFilter \in ToolFilters
    /\ connFetched = <<>>
    /\ connTools = <<>>

\* refreshTools when the server answers listTools
ConnRefreshTools(names) ==
    /\ connFetched' = names
    /\ connTools' = refreshTools(names, connFilter, FilterServerName)
    /\ UNCHANGED <<connFilter, notFilter>>

\* refreshTools when listTools is rejected: the cache is left as it was
ConnRefreshToolsUnsupported ==
    /\ connTools # <<>>
    /\ UNCHANGED vars

\* disconnect clears the cache
ConnDisconnect ==
    /\ connFetched' = <<>>
    /\ connTools' = <<>>
    /\ UNCHANGED <<connFilter, notFilter>>

FilterNext ==
    \/ \E names \in SeqsUpTo(FilterToolNames, MaxFetchedTools) : ConnRefreshTools(names)
    \/ ConnRefreshToolsUnsupported
    \/ ConnDisconnect

SpecFilter == FilterInit /\ [][FilterNext]_vars

exposed(tool, filter) ==
    /\ Cardinality(filter.allowedTools) > 0 => tool.name \in filter.allowedTools
    /\ tool.name \notin filter.deniedTools

\* C8: for every fetched list, allow-list and deny-list, the tools a server
\* exposes are the fetched tools that are allowed (all of them when the
\* allow-list is empty) and not denied, in their original order; a name on
\* both lists is never exposed.  Stated of filterTools on the fetched list as it
\* came, and of the connection's cache, which holds each name once.
C8_FilterExact ==
    LET fetched == toolsOfResponse(connFetched, FilterServerName)
        want(tools) == SelectSeq(tools, LAMBDA tool : exposed(tool, connFilter))
    IN  /\ filterTools(fetched, connFilter) = want(fetched)
        /\ connTools = want(mapFromList(fetched))
        /\ \A i \in 1..Len(connTools) :
               connTools[i].name \notin (connFilter.allowedTools \cap connFilter.deniedTools)

C8_Witness ==
    /\ connFilter.allowedTools = {"a", "b"}
    /\ connFilter.deniedTools = {"a"}
    /\ connFetched = <<"a", "c", "b">>
    /\ connTools = <<McpTool("b", FilterServerName)>>

(***************************************************************************)
(* ToolExecutor (src/src/tools/executor.ts).  A JavaScript value is its    *)
(* kind and, for an object, the kind of each of its fields ("absent" when  *)
(* the field is missing).                                                  *)
(***************************************************************************)
FieldNames == {"q"}

JsValue(kind) == [kind |-> kind, fields |-> [f \in FieldNames |-> "absent"]]

JsObject(fields) == [kind |-> "object", fields |-> fields]

typeof(value) ==
    IF value.kind \in {"null", "object", "array"} THEN "object" ELSE value.kind

\* `field in input`: a TypeError on a primitive, false on an array
hasField(input, field) == input.kind = "object" /\ input.fields[field] # "absent"

validateType(kind, expectedType) ==
    CASE expectedType = "string" -> kind = "string"
      [] expectedType \in {"number", "integer"} -> kind = "number"
      [] expectedType = "boolean" -> kind = "boolean"
      [] expectedType = "object" -> kind = "object"
      [] expectedType = "array" -> kind = "array"
      [] expectedType = "null" -> kind = "null"
      [] OTHER -> TRUE

\* an input schema: its type, its required fields and the type of each property
JSONSchema(type, required, properties) ==
    [type |-> type, required |-> required, properties |-> properties]

\* what validateToolInput throws, or "none" when the input passes
validateToolInput(input, schema) ==
    IF input.kind \in {"undefined", "null"} THEN "ToolExecutionError"
    ELSE IF schema.type = "object" /\ typeof(input) # "object" THEN "ToolExecutionError"
    ELSE IF schema.required # {} /\ typeof(input) # "object" THEN "TypeError"
    ELSE IF \E f \in schema.required : ~hasField(input, f) THEN "ToolExecutionError"
    ELSE IF /\ typeof(input) = "object"
            /\ \E f \in DOMAIN schema.properties :
                   /\ hasField(input, f)
                   /\ ~validateType(input.fields[f], schema.properties[f])
         THEN "ToolExecutionError"
    ELSE "none"

\* the result of a call on the executor: a returned ToolResult, or an exception
ToolResult(toolUseId, status, text) ==
    [completion |-> "returned", toolUseId |-> toolUseId, status |-> status, text |-> text]

Thrown(error) ==
    [completion |-> "thrown", toolUseId |-> "", status |-> "", text |-> error]

\* a handleToolError that tolerates a thrown value that is no object
handleToolError_guarded(toolUseId, error) ==
    ToolResult(toolUseId, "error",
               CASE error = "ToolExecutionError" -> "Error: <message>"
                 [] error = "McpToolExecutionError" -> "Error: MCP tool execution failed: <message>"
                 [] OTHER -> "Error: Tool execution failed: <message>")

\* handleToolError reads error.message before anything else: a TypeError
\* when the value thrown is null or undefined
handleToolError(toolUseId, error) ==
    IF error \in {"null", "undefined"} THEN Thrown("TypeError")
    ELSE handleToolError_guarded(toolUseId, error)

\* what the handler of a local tool does when called
HandlerOutcomes ==
    {"returns", "throwsError", "throwsToolExecutionError", "throwsString", "throwsUndefined"}

thrownBy(outcome) ==
    CASE outcome = "throwsError" -> "Error"
      [] outcome = "throwsToolExecutionError" -> "ToolExecutionError"
      [] outcome = "throwsString" -> "string"
      [] outcome = "throwsUndefined" -> "undefined"

isLocalTool(tools, name) == \E i \in 1..Len(tools) : tools[i].name = name

getTool(tools, name) == tools[CHOOSE i \in 1..Len(tools) : tools[i].name = name]

executeLocalTool(tools, toolUse, outcome) ==
    LET invalid == validateToolInput(toolUse.input, getTool(tools, toolUse.name).inputSchema)
    IN  IF ~isLocalTool(tools, toolUse.name)
        THEN handleToolError(toolUse.toolUseId, "ToolExecutionError")
        ELSE IF invalid # "none" THEN handleToolError(toolUse.toolUseId, invalid)
        ELSE IF outcome = "returns"
             THEN ToolResult(toolUse.toolUseId, "success", "<handler result>")
        ELSE handleToolError(toolUse.toolUseId, thrownBy(outcome))

\* the local handler runs when the tool is found and its input passes
handlerInvoked(tools, toolUse) ==
    /\ isLocalTool(tools, toolUse.name)
    /\ validateToolInput(toolUse.input, getTool(tools, toolUse.name).inputSchema) = "none"

(***************************************************************************)
(* McpClientManager (src/src/mcp/client-manager.ts): the registry of       *)
(* server connections, in the order they were added.                       *)
(***************************************************************************)
Connection(name, state, tools) == [name |-> name, state |-> state, tools |-> tools]

isConnected(connection) == connection.state = "connected"

hasTool(connection, toolName) ==
    \E i \in 1..Len(connection.tools) : connection.tools[i].name = toolName

hasConnection(conns, name) == \E i \in 1..Len(conns) : conns[i].name = name

\* McpClientManager.listAllTools: the tools of every connected server, in
\* registry order; a name two servers provide is kept twice
RECURSIVE mcpListAllTools(_)
mcpListAllTools(conns) ==
    IF conns = <<>> THEN <<>>
    ELSE (IF isConnected(Head(conns)) THEN Head(conns).tools ELSE <<>>)
         \o mcpListAllTools(Tail(conns))

\* the first connected server that has the tool; 0 when there is none
findToolServer(conns, toolName) ==
    LET found == {i \in 1..Len(conns) : isConnected(conns[i]) /\ hasTool(conns[i], toolName)}
    IN  IF found = {} THEN 0 ELSE CHOOSE i \in found : \A j \in found : i <= j

\* what a remote call does
RemoteOutcomes == {"ok", "fails"}

\* McpClientManager.executeTool: "none" when the call returns, else what it throws
mcpExecuteTool(conns, toolName, remote) ==
    IF findToolServer(conns, toolName) = 0 THEN "McpToolExecutionError"
    ELSE IF remote = "ok" THEN "none"
    ELSE "McpToolExecutionError"

executeMcpTool(conns, toolUse, remote) ==
    IF mcpExecuteTool(conns, toolUse.name, remote) = "none"
    THEN ToolResult(toolUse.toolUseId, "success", "<server result>")
    ELSE handleToolError(toolUse.toolUseId, mcpExecuteTool(conns, toolUse.name, remote))

\* an executeTool that asks the servers first
executeTool_remoteFirst(tools, conns, toolUse, outcome, remote) ==
    IF findToolServer(conns, toolUse.name) # 0
    THEN executeMcpTool(conns, toolUse, remote)
    ELSE executeLocalTool(tools, toolUse, outcome)

executeTool(tools, conns, toolUse, outcome, remote) ==
    IF isLocalTool(tools, toolUse.name)
    THEN executeLocalTool(tools, toolUse, outcome)
    ELSE executeMcpTool(conns, toolUse, remote)

\* an entry of a tool catalog: the name, and whose description and schema it has
ToolSpec(name, origin) == [name |-> name, origin |-> origin]

RECURSIVE localToolSpecs(_)
localToolSpecs(tools) ==
    IF tools = <<>> THEN <<>>
    ELSE <<ToolSpec(Head(tools).name, "local")>> \o localToolSpecs(Tail(tools))

RECURSIVE mcpToolSpecs(_)
mcpToolSpecs(mcpTools) ==
    IF mcpTools = <<>> THEN <<>>
    ELSE <<ToolSpec(Head(mcpTools).name, Head(mcpTools).serverName)>>
         \o mcpToolSpecs(Tail(mcpTools))

\* a listAllTools that keeps the remote tools whose name a local tool has
listAllTools_keepColliding(tools, conns) ==
    localToolSpecs(tools) \o mcpToolSpecs(mcpListAllTools(conns))

\* ToolExecutor.listAllTools
listAllTools(tools, conns) ==
    localToolSpecs(tools)
    \o mcpToolSpecs(SelectSeq(mcpListAllTools(conns),
                              LAMBDA mcpTool : ~isLocalTool(tools, mcpTool.name)))

\* Agent.getAllToolSpecs (src/src/agent.ts): every local tool, then every tool
\* McpClientManager.listAllTools gave
getAllToolSpecs(tools, conns) ==
    localToolSpecs(tools) \o mcpToolSpecs(mcpListAllTools(conns))

(***************************************************************************)
(* The tool layer as a system: tools are registered, servers connect,      *)
(* reconnect and disconnect, tools are executed and catalogs are built.    *)
(***************************************************************************)
\* the tool lists a server may answer listTools with
ServerCatalogs == {<<>>, <<"search">>, <<"fetch", "search">>}

ToolUseIds == {"tu-1", "tu-2"}

ToolNames == {"search", "calc", "fetch"}

\* the tool definitions registerTool is given; wellFormed is false for one
\* that fails any of its checks
ToolDefinition(name, inputSchema, wellFormed) ==
    [name |-> name, inputSchema |-> inputSchema, wellFormed |-> wellFormed]

ToolDefinitions ==
    { ToolDefinition("search", JSONSchema("object", {"q"}, [f \in {"q"} |-> "string"]), TRUE),
      ToolDefinition("calc", JSONSchema("string", {"q"}, [f \in {} |-> "string"]), TRUE),
      ToolDefinition("bad name", JSONSchema("object", {}, [f \in {} |-> "string"]), FALSE) }

ToolInputs ==
    { JsValue("undefined"), JsValue("string"), JsValue("object"),
      JsObject([f \in FieldNames |-> "string"]), JsObject([f \in FieldNames |-> "number"]) }

ToolUse(toolUseId, name, input) == [toolUseId |-> toolUseId, name |-> name, input |-> input]

McpServerConfig(name, toolFilter) == [name |-> name, toolFilter |-> toolFilter]

McpServerConfigs ==
    { McpServerConfig("s1", NoToolFilter),
      McpServerConfig("s2", ToolFilter({}, {"calc"})) }

configOf(name) == CHOOSE config \in McpServerConfigs : config.name = name

ToolsInit ==
    /\ MemIdle /\ maxMessages = DEFAULT_MAX_MESSAGES /\ maxTokens = DEFAULT_MAX_TOKENS
    /\ RetryIdle /\ FilterIdle /\ StreamIdle /\ TurnIdle /\ SessionIdle /\ PoolIdle /\ LifeIdle
    /\ RestIdle
    /\ localTools = <<>>
    /\ connections = <<>>
    /\ toolsOut = [op |-> "none"]

registerTool(tool) ==
    /\ IF tool.wellFormed
       THEN /\ localTools' = mapSet(localTools, tool)
            /\ toolsOut' = [op |-> "registerTool", thrown |-> FALSE]
       ELSE /\ localTools' = localTools
            /\ toolsOut' = [op |-> "registerTool", thrown |-> TRUE]
    /\ UNCHANGED <<connections, notTools>>

\* McpClientManager.connect when the name is free and the server answers
McpConnect(config, names) ==
    /\ ~hasConnection(connections, config.name)
    /\ connections' = Append(connections,
           Connection(config.name, "connected",
                      refreshTools(names, config.toolFilter, config.name)))
    /\ toolsOut' = [op |-> "connect", thrown |-> FALSE]
    /\ UNCHANGED <<localTools, notTools>>

\* McpClientManager.connect when the name is taken or the connection fails
McpConnectFailed(config) ==
    /\ toolsOut' = [op |-> "connect", thrown |-> TRUE]
    /\ UNCHANGED <<localTools, connections, notTools>>

McpDisconnect(name) ==
    /\ hasConnection(connections, name)
    /\ connections' = SelectSeq(connections, LAMBDA c : c.name # name)
    /\ toolsOut' = [op |-> "disconnect", thrown |-> FALSE]
    /\ UNCHANGED <<localTools, notTools>>

\* attemptReconnect up to its first await: the connection is "reconnecting"
McpAttemptReconnect(i) ==
    /\ connections[i].state # "reconnecting"
    /\ connections' = [connections EXCEPT ![i].state = "reconnecting"]
    /\ toolsOut' = [op |-> "attemptReconnect", thrown |-> FALSE]
    /\ UNCHANGED <<localTools, notTools>>

\* attemptReconnect once connect() has settled
McpReconnectSettled(i, ok, names) ==
    /\ connections[i].state = "reconnecting"
    /\ connections' =
           IF ok
           THEN [connections EXCEPT ![i] =
                    Connection(@.name, "connected",
                               refreshTools(names, configOf(@.name).toolFilter, @.name))]
           ELSE [connections EXCEPT ![i].state = "error"]
    /\ toolsOut' = [op |-> "attemptReconnect", thrown |-> ~ok]
    /\ UNCHANGED <<localTools, notTools>>

\* executeTool; the handler's outcome is drawn when the handler runs and the
\* server's when a server is called
ToolExecuteTool(toolUse, outcome, remote) ==
    /\ outcome # "returns" => handlerInvoked(localTools, toolUse)
    /\ remote # "ok" => findToolServer(connections, toolUse.name) # 0
    /\ toolsOut' = [op |-> "executeTool", toolUse |-> toolUse,
                    outcome |-> outcome, remote |-> remote,
                    result |-> executeTool(localTools, connections, toolUse, outcome, remote)]
    /\ UNCHANGED <<localTools, connections, notTools>>

ToolListAllTools ==
    /\ toolsOut' = [op |-> "listAllTools", tools |-> listAllTools(localTools, connections)]
    /\ UNCHANGED <<localTools, connections, notTools>>

\* buildConverseRequest and buildConverseStreamRequest: the toolConfig of the request
ToolBuildConverseRequest ==
    /\ toolsOut' = [op |-> "buildConverseRequest",
                    tools |-> getAllToolSpecs(localTools, connections)]
    /\ UNCHANGED <<localTools, connections, notTools>>

ToolsNext ==
    \/ \E tool \in ToolDefinitions : registerTool(tool)
    \/ \E config \in McpServerConfigs, names \in ServerCatalogs :
           McpConnect(config, names)
    \/ \E config \in McpServerConfigs : McpConnectFailed(config)
    \/ \E config \in McpServerConfigs : McpDisconnect(config.name)
    \/ \E i \in 1..Len(connections) : McpAttemptReconnect(i)
    \/ \E i \in 1..Len(connections), ok \in BOOLEAN,
          names \in ServerCatalogs :
           McpReconnectSettled(i, ok, names)
    \/ \E id \in ToolUseIds, name \in ToolNames, input \in ToolInputs,
          outcome \in HandlerOutcomes, remote \in RemoteOutcomes :
           ToolExecuteTool(ToolUse(id, name, input), outcome, remote)
    \/ ToolListAllTools
    \/ ToolBuildConverseRequest

SpecTools == ToolsInit /\ [][ToolsNext]_vars

namesOf(specs) == [i \in 1..Len(specs) |-> specs[i].name]

count(names, name) == Cardinality({i \in 1..Len(names) : names[i] = name})

\* the names a local tool and a connected server both expose
collidingNames(tools, conns) ==
    {n \in ToolNames : isLocalTool(tools, n) /\ findToolServer(conns, n) # 0}

\* the calls executeTool is to answer with an error result
failedCall(tools, conns, toolUse, outcome, remote) ==
    IF isLocalTool(tools, toolUse.name)
    THEN ~handlerInvoked(tools, toolUse) \/ outcome # "returns"
    ELSE findToolServer(conns, toolUse.name) = 0 \/ remote = "fails"

\* C5: executeTool never throws: every call returns a tool result carrying the
\* call's toolUseId, with status "error" when the tool is unknown, the input
\* fails validation, the local handler throws or rejects, or the remote call
\* fails.
C5_ExecuteToolNeverThrows ==
    toolsOut.op = "executeTool" =>
        /\ toolsOut.result.completion = "returned"
        /\ toolsOut.result.toolUseId = toolsOut.toolUse.toolUseId
        /\ failedCall(localTools, connections, toolsOut.toolUse,
                      toolsOut.outcome, toolsOut.remote)
               => toolsOut.result.status = "error"

\* C6: when a local tool and a connected server expose the same name,
\* listAllTools has exactly one entry of that name, the local one, and
\* executeTool for that name runs the local handler and never calls the server.
C6_LocalPrecedence ==
    /\ toolsOut.op = "listAllTools" =>
           \A n \in collidingNames(localTools, connections) :
               /\ count(namesOf(toolsOut.tools), n) = 1
               /\ \E i \in 1..Len(toolsOut.tools) : toolsOut.tools[i] = ToolSpec(n, "local")
    /\ /\ toolsOut.op = "executeTool"
       /\ toolsOut.toolUse.name \in collidingNames(localTools, connections)
       => /\ toolsOut.result.text \notin
                 {"<server result>", "Error: MCP tool execution failed: <message>"}
          /\ handlerInvoked(localTools, toolsOut.toolUse) /\ toolsOut.outcome = "returns"
                 => toolsOut.result =
                        ToolResult(toolsOut.toolUse.toolUseId, "success", "<handler result>")

C6_Witness ==
    /\ toolsOut.op = "listAllTools"
    /\ "search" \in collidingNames(localTools, connections)
    /\ \E i \in 1..Len(toolsOut.tools) :
           toolsOut.tools[i].name = "fetch" /\ toolsOut.tools[i].origin # "local"

\* C7: the tool catalog of every model request carries no name twice: each
\* local tool once, and no remote tool whose name a local tool has.
C7_RequestCatalogUnique ==
    toolsOut.op = "buildConverseRequest" =>
        /\ \A n \in ToolNames : count(namesOf(toolsOut.tools), n) <= 1
        /\ \A i \in 1..Len(toolsOut.tools) :
               isLocalTool(localTools, toolsOut.tools[i].name)
                   => toolsOut.tools[i].origin = "local"

(***************************************************************************)
(* One streamed model call of Agent.processStreamingConversationTurn       *)
(* (src/src/agent.ts): the events of the stream are folded into            *)
(* accumulatedContent, and the assistant message is appended to memory.    *)
(* A content index i is position i + 1 of the sequence.                    *)
(***************************************************************************)
MaxStreamEvents == 4

StreamIndexes == {0, 1}

DeltaTexts == {"Hello ", "world"}

\* fragments of a tool input; their concatenation parses when it is ValidJson
InputFragments == {"{\"q\":1}"}

ValidJson == "{\"q\":1}"

StopReasons == {"end_turn", "tool_use", "guardrail_intervened"}

StreamEvent(type, contentBlockIndex, kind, text) ==
    [type |-> type, contentBlockIndex |-> contentBlockIndex, kind |-> kind, text |-> text]

ContentEvents ==
    {StreamEvent("contentBlockStart", i, k, "") : i \in StreamIndexes, k \in {"text", "toolUse"}}
    \cup {StreamEvent("contentBlockDelta", i, "text", t) : i \in StreamIndexes, t \in DeltaTexts}
    \cup {StreamEvent("contentBlockDelta", i, "toolUse", t) :
              i \in StreamIndexes, t \in InputFragments}
    \cup {StreamEvent("contentBlockStop", i, "", "") : i \in StreamIndexes}

\* array[index] = block: the array grows, leaving holes, when index is past its end
setAt(content, index, block) ==
    [k \in 1..(IF index + 1 > Len(content) THEN index + 1 ELSE Len(content)) |->
        IF k = index + 1 THEN block
        ELSE IF k <= Len(content) THEN content[k] ELSE Hole]

\* array[index], "undefined" standing for a hole or an index past the end
blockAt(content, index) ==
    IF index + 1 <= Len(content) THEN content[index + 1] ELSE Hole

\* a text accumulation that puts the delta in front
appendText_prepend(text, delta) == delta \o text

\* block.text += event.delta.text
appendText(text, delta) == text \o delta

\* JSON.parse of the buffered input, {} when it throws; an input is written as
\* its JSON text
parseToolInput(text) == IF text = ValidJson THEN text ELSE "{}"

toolUseIdOf(index) == IF index = 0 THEN "t0" ELSE "t1"

onContentBlockStart(content, event) ==
    setAt(content, event.contentBlockIndex,
          IF event.kind = "toolUse"
          THEN ToolUseBlock(toolUseIdOf(event.contentBlockIndex), "search", "{}")
          ELSE TextBlock(""))

onTextDelta(content, event) ==
    IF blockAt(content, event.contentBlockIndex).type = "text"
    THEN [content EXCEPT ![event.contentBlockIndex + 1].text = appendText(@, event.text)]
    ELSE content

onContentBlockStop(content, event, buffered) ==
    IF blockAt(content, event.contentBlockIndex).type = "toolUse" /\ buffered # ""
    THEN [content EXCEPT ![event.contentBlockIndex + 1].input = parseToolInput(buffered)]
    ELSE content

\* text.trim().length > 0, for the texts of DeltaTexts
nonBlank(block) == block.type = "text" /\ block.text # ""

\* the scan for text after a guardrail stop: "found" when a non-blank text
\* comes before any hole, "throws" when a hole comes first, else "none"
RECURSIVE scanForText(_)
scanForText(content) ==
    IF content = <<>> THEN "none"
    ELSE IF Head(content) = Hole THEN "throws"
    ELSE IF nonBlank(Head(content)) THEN "found"
    ELSE scanForText(Tail(content))

guardrailFallbackMessage ==
    "I apologize, but I cannot provide a response to that request as it doesn't align with my content guidelines. Please rephrase your question or ask something else."

\* accumulatedContent once the stream has ended
finalContent(content, reason) ==
    IF reason = "guardrail_intervened" /\ scanForText(content) = "none"
    THEN Append(content, TextBlock(guardrailFallbackMessage))
    ELSE content

FirstUserMessage == Msg("user", <<TextBlock("hi")>>)

\* converseStream has appended the user message and the model call is made
StreamInit ==
    /\ shortTermMemory = <<FirstUserMessage>>
    /\ maxMessages = DEFAULT_MAX_MESSAGES /\ maxTokens = DEFAULT_MAX_TOKENS
    /\ messagesPruned = 0
    /\ lastOp = [op |-> "addMessage", msg |-> FirstUserMessage]
    /\ RetryIdle /\ FilterIdle /\ ToolsIdle /\ TurnIdle /\ SessionIdle /\ PoolIdle /\ LifeIdle
    /\ RestIdle
    /\ streamPc = "streaming"
    /\ streamEvents = <<>>
    /\ accumulatedContent = <<>>
    /\ currentToolUseInput = ""
    /\ stopReason = "end_turn"

StreamContentBlockStart(event) ==
    /\ streamPc = "streaming" /\ Len(streamEvents) < MaxStreamEvents
    /\ event.type = "contentBlockStart"
    /\ streamEvents' = Append(streamEvents, event)
    /\ accumulatedContent' = onContentBlockStart(accumulatedContent, event)
    /\ currentToolUseInput' = IF event.kind = "toolUse" THEN "" ELSE currentToolUseInput
    /\ UNCHANGED <<streamPc, stopReason, memVars, notStream>>

StreamContentBlockDelta(event) ==
    /\ streamPc = "streaming" /\ Len(streamEvents) < MaxStreamEvents
    /\ event.type = "contentBlockDelta"
    /\ streamEvents' = Append(streamEvents, event)
    /\ IF event.kind = "text"
       THEN /\ accumulatedContent' = onTextDelta(accumulatedContent, event)
            /\ UNCHANGED currentToolUseInput
       ELSE /\ currentToolUseInput' = currentToolUseInput \o event.text
            /\ UNCHANGED accumulatedContent
    /\ UNCHANGED <<streamPc, stopReason, memVars, notStream>>

StreamContentBlockStop(event) ==
    /\ streamPc = "streaming" /\ Len(streamEvents) < MaxStreamEvents
    /\ event.type = "contentBlockStop"
    /\ streamEvents' = Append(streamEvents, event)
    /\ accumulatedContent' = onContentBlockStop(accumulatedContent, event, currentToolUseInput)
    /\ UNCHANGED <<streamPc, currentToolUseInput, stopReason, memVars, notStream>>

\* messageStop, the last event of a stream that has one
StreamMessageStop(reason) ==
    /\ streamPc = "streaming"
    /\ streamPc' = "stopped"
    /\ streamEvents' = Append(streamEvents, StreamEvent("messageStop", 0, "", reason))
    /\ stopReason' = reason
    /\ UNCHANGED <<accumulatedContent, currentToolUseInput, memVars, notStream>>

\* an error event: yielded, then thrown as an APIError; a second error event
\* is yielded by the catch block and nothing is appended
StreamErrorEvent ==
    /\ streamPc = "streaming"
    /\ streamPc' = "failed"
    /\ streamEvents' = streamEvents \o <<StreamEvent("error", 0, "", "STREAM_ERROR"),
                                         StreamEvent("error", 0, "", "STREAM_PROCESSING_ERROR")>>
    /\ UNCHANGED <<accumulatedContent, currentToolUseInput, stopReason, memVars, notStream>>

\* the stream ends: guardrail fallback, then the assistant message is appended
StreamEnd ==
    /\ streamPc \in {"streaming", "stopped"}
    /\ IF stopReason = "guardrail_intervened" /\ scanForText(accumulatedContent) = "throws"
       THEN /\ streamPc' = "failed"
            /\ UNCHANGED <<streamEvents, accumulatedContent, memVars>>
       ELSE LET content == finalContent(accumulatedContent, stopReason)
            IN  /\ accumulatedContent' = content
                /\ streamEvents' =
                       IF content = accumulatedContent THEN streamEvents
                       ELSE Append(streamEvents,
                                StreamEvent("contentBlockDelta", Len(content) - 1, "text",
                                            guardrailFallbackMessage))
                /\ addMessage(Msg("assistant", content))
                /\ streamPc' = IF hasHole(content) THEN "failed" ELSE "appended"
    /\ UNCHANGED <<currentToolUseInput, stopReason, notStream>>

StreamNext ==
    \/ \E event \in ContentEvents : StreamContentBlockStart(event)
    \/ \E event \in ContentEvents : StreamContentBlockDelta(event)
    \/ \E event \in ContentEvents : StreamContentBlockStop(event)
    \/ \E reason \in StopReasons : StreamMessageStop(reason)
    \/ StreamErrorEvent
    \/ StreamEnd

SpecStream == StreamInit /\ [][StreamNext]_vars

\* the text deltas of the events addressed to index i, concatenated in order
RECURSIVE textDeltasTo(_, _)
textDeltasTo(events, i) ==
    IF events = <<>> THEN ""
    ELSE LET e == events[Len(events)]
             before == textDeltasTo(SubSeq(events, 1, Len(events) - 1), i)
         IN  IF e.type = "contentBlockDelta" /\ e.kind = "text" /\ e.contentBlockIndex = i
             THEN before \o e.text ELSE before

\* text block i: opened once, as text, by contentBlockStart(i), its text
\* deltas coming after that
isTextBlock(events, i) ==
    LET starts == {k \in 1..Len(events) :
                       events[k].type = "contentBlockStart" /\ events[k].contentBlockIndex = i}
    IN  /\ Cardinality(starts) = 1
        /\ \A k \in starts :
               /\ events[k].kind = "text"
               /\ textDeltasTo(SubSeq(events, 1, k), i) = ""

\* C9: for any event sequence, the assistant message appended to memory has
\* at every index i of a text block (opened by contentBlockStart(i), then
\* receiving its text deltas) a text block equal to the in-order concatenation
\* of exactly the text deltas addressed to i.
C9_TextAccumulated ==
    lastOp.msg.role = "assistant" =>
        \A i \in StreamIndexes :
            isTextBlock(streamEvents, i) =>
                /\ i + 1 <= Len(lastOp.msg.content)
                /\ lastOp.msg.content[i + 1] = TextBlock(textDeltasTo(streamEvents, i))

C9_Witness ==
    /\ streamPc = "appended"
    /\ Len(streamEvents) >= 4
    /\ SubSeq(streamEvents, 1, 4) =
           << StreamEvent("contentBlockStart", 0, "text", ""),
              StreamEvent("contentBlockDelta", 0, "text", "Hello "),
              StreamEvent("contentBlockDelta", 0, "text", "world"),
              StreamEvent("contentBlockStop", 0, "", "") >>
    /\ lastOp.msg = Msg("assistant", <<TextBlock("Hello world")>>)
    /\ shortTermMemory = <<FirstUserMessage, lastOp.msg>>

(***************************************************************************)
(* One turn: Agent.converse with processConversationTurn, and              *)
(* Agent.converseStream with processStreamingConversationTurn              *)
(* (src/src/agent.ts).  A model call is taken with its outcome: a response *)
(* (for the streaming path, the content accumulated from the stream), or   *)
(* the error left once the call has failed.                                *)
(***************************************************************************)
maxToolUseIterations == 20

maxToolUseIterationsStreaming == 10

maxIterationsOf(path) ==
    IF path = "converse" THEN maxToolUseIterations ELSE maxToolUseIterationsStreaming

\* a loop that admits one more iteration
loopContinues_oneMore(iter, max) == iter <= max

\* while (iteration < maxToolUseIterations)
loopContinues(iter, max) == iter < max

ModelResponse(reason, content) == [stopReason |-> reason, content |-> content]

SearchToolUse(id) == ToolUseBlock(id, "search", "{\"q\":\"x\"}")

\* what the model may answer
ModelResponses ==
    { ModelResponse("tool_use", <<TextBlock("checking"), SearchToolUse("t0")>>),
      ModelResponse("tool_use", <<SearchToolUse("t0"), SearchToolUse("t1")>>),
      ModelResponse("tool_use", <<TextBlock("done")>>),
      ModelResponse("end_turn", <<TextBlock("done")>>),
      ModelResponse("max_tokens", <<TextBlock("do")>>) }

\* the errors a model call may end with
ModelCallErrors == {APIError(429), APIError(400), PlainError("TypeError")}

\* the input of a tool-use block as the value handed to the executor
inputValueOf(json) ==
    IF json = "{}" THEN JsValue("object") ELSE JsObject([f \in FieldNames |-> "string"])

\* extractToolUses, and the same scan of the streaming path
RECURSIVE extractToolUses(_)
extractToolUses(content) ==
    IF content = <<>> THEN <<>>
    ELSE (IF Head(content).type = "toolUse"
          THEN <<ToolUse(Head(content).toolUseId, Head(content).name,
                         inputValueOf(Head(content).input))>>
          ELSE <<>>)
         \o extractToolUses(Tail(content))

SearchTool ==
    ToolDefinition("search", JSONSchema("object", {"q"}, [f \in {"q"} |-> "string"]), TRUE)

\* config.memory of the agent taking the turn
TurnMemoryConfig == [maxMessages |-> 2, maxTokens |-> DEFAULT_MAX_TOKENS]

\* converse / converseStream of an agent with this config.memory up to the
\* call of the turn loop: the user message is in memory
turnStart(memoryConfig) ==
    /\ shortTermMemory = <<FirstUserMessage>>
    /\ maxMessages = memoryConfig.maxMessages
    /\ maxTokens = memoryConfig.maxTokens
    /\ messagesPruned = 0
    /\ lastOp = [op |-> "addMessage", msg |-> FirstUserMessage]
    /\ RetryIdle /\ FilterIdle /\ StreamIdle /\ SessionIdle /\ PoolIdle /\ LifeIdle
    /\ RestIdle
    /\ localTools = <<SearchTool>>
    /\ connections = <<>>
    /\ toolsOut = [op |-> "none"]
    /\ turnPath \in {"converse", "converseStream"}
    /\ turnPc = "loop"
    /\ iteration = 0
    /\ modelCalls = 0
    /\ toolUseCalls = 0
    /\ lastResponse = [stopReason |-> "none", content |-> <<>>]
    /\ pendingToolUses = <<>>
    /\ toolResults = <<>>
    /\ turnResult = [outcome |-> "none", error |-> NoError]
    /\ errorEvents = <<>>

TurnInit == turnStart(TurnMemoryConfig)

TurnOutcome(outcome, error) == [outcome |-> outcome, error |-> error]

maxIterationsError == APIError(0)

\* the turn ends by an exception; converseStream yields a last error event
turnThrows(outcome, error, events) ==
    /\ turnPc' = "done"
    /\ turnResult' = TurnOutcome(outcome, error)
    /\ errorEvents' = IF turnPath = "converseStream"
                      THEN errorEvents \o events \o <<"STREAM_FAILED">>
                      ELSE errorEvents

turnReturns ==
    /\ turnPc' = "done"
    /\ turnResult' = TurnOutcome("returned", NoError)
    /\ UNCHANGED errorEvents

\* the code after the streaming loop
afterStreamingLoop(iter) ==
    IF iter >= maxToolUseIterationsStreaming
    THEN turnThrows("maxIterations", maxIterationsError, <<"MAX_ITERATIONS_EXCEEDED">>)
    ELSE turnReturns

\* an iteration whose model call fails
TurnModelCallFailed(error) ==
    /\ turnPc = "loop" /\ loopContinues(iteration, maxIterationsOf(turnPath))
    /\ iteration' = iteration + 1
    /\ turnThrows("modelCallFailed", error, <<"STREAM_PROCESSING_ERROR">>)
    /\ UNCHANGED <<turnPath, modelCalls, toolUseCalls, lastResponse, pendingToolUses,
                   toolResults, memVars, notTurn>>

\* an iteration up to its first tool call, or to the end of the turn
TurnModelCall(response) ==
    LET toolUses == extractToolUses(response.content)
        withTools == response.stopReason = "tool_use" /\ toolUses # <<>>
        assistantMessage == Msg("assistant", response.content)
    IN  /\ turnPc = "loop" /\ loopContinues(iteration, maxIterationsOf(turnPath))
        /\ iteration' = iteration + 1
        /\ modelCalls' = modelCalls + 1
        /\ toolUseCalls' = IF withTools THEN toolUseCalls + 1 ELSE toolUseCalls
        /\ lastResponse' = response
        /\ toolResults' = <<>>
        /\ IF withTools
           THEN /\ addMessage(assistantMessage)
                /\ pendingToolUses' = toolUses
                /\ turnPc' = "tools"
                /\ UNCHANGED <<turnResult, errorEvents>>
           ELSE /\ IF turnPath = "converse" /\ response.stopReason = "tool_use"
                   THEN UNCHANGED memVars
                   ELSE addMessage(assistantMessage)
                /\ UNCHANGED pendingToolUses
                /\ IF turnPath = "converse" THEN turnReturns
                   ELSE afterStreamingLoop(iteration + 1)
        /\ UNCHANGED <<turnPath, notTurn>>

\* the next tool call of the iteration; after the last one the results are
\* appended as a user message
TurnExecuteTool(outcome) ==
    LET toolUse == Head(pendingToolUses)
        result == executeTool(localTools, connections, toolUse, outcome, "ok")
        results == Append(toolResults,
                          ToolResultBlock(result.toolUseId, <<TextBlock(result.text)>>,
                                          result.status))
    IN  /\ turnPc = "tools"
        /\ outcome # "returns" => handlerInvoked(localTools, toolUse)
        /\ IF result.completion = "thrown"
           THEN /\ turnThrows("toolThrew", PlainError(result.text), <<>>)
                /\ UNCHANGED <<pendingToolUses, toolResults, memVars>>
           ELSE /\ pendingToolUses' = Tail(pendingToolUses)
                /\ toolResults' = results
                /\ IF Tail(pendingToolUses) = <<>>
                   THEN addMessage(Msg("user", results)) /\ turnPc' = "loop"
                   ELSE UNCHANGED <<memVars, turnPc>>
                /\ UNCHANGED <<turnResult, errorEvents>>
        /\ UNCHANGED <<turnPath, iteration, modelCalls, toolUseCalls, lastResponse, notTurn>>

\* the loop condition fails
TurnLoopExit ==
    /\ turnPc = "loop" /\ ~loopContinues(iteration, maxIterationsOf(turnPath))
    /\ IF turnPath = "converse"
       THEN turnThrows("maxIterations", maxIterationsError, <<>>)
       ELSE afterStreamingLoop(iteration)
    /\ UNCHANGED <<turnPath, iteration, modelCalls, toolUseCalls, lastResponse,
                   pendingToolUses, toolResults, memVars, notTurn>>

TurnNext ==
    \/ \E error \in ModelCallErrors : TurnModelCallFailed(error)
    \/ \E response \in ModelResponses : TurnModelCall(response)
    \/ \E outcome \in HandlerOutcomes : TurnExecuteTool(outcome)
    \/ TurnLoopExit

SpecTurn == TurnInit /\ [][TurnNext]_vars

\* a buffered turn in which the model always asks for a tool and every tool
\* call returns its result; the turn is scheduled until it ends
ToolUseResponses ==
    {r \in ModelResponses : r.stopReason = "tool_use" /\ extractToolUses(r.content) # <<>>}

ReturningOutcomes == {"returns", "throwsError"}

ToolLoopInit == TurnInit /\ turnPath = "converse"

ToolLoopNext ==
    \/ \E response \in ToolUseResponses : TurnModelCall(response)
    \/ \E outcome \in ReturningOutcomes : TurnExecuteTool(outcome)
    \/ TurnLoopExit

SpecToolLoop == ToolLoopInit /\ [][ToolLoopNext]_vars /\ WF_vars(ToolLoopNext)

\* how a buffered turn of tool-use answers has ended
C3_Final ==
    /\ turnPc = "done"
    /\ turnResult = TurnOutcome("maxIterations", maxIterationsError)
    /\ modelCalls = maxToolUseIterations
    /\ toolUseCalls = maxToolUseIterations
    /\ iteration = maxToolUseIterations
    /\ maxIterationsError = APIError(0)
    /\ ~turnResult.error.retryable
    /\ ~shouldRetry(turnResult.error, 1, retryConfig.maxRetries)

\* C3: a buffered turn whose every model response has stop reason tool_use
\* with a tool-use block ends, after exactly 20 model calls, by failing with
\* the max-iterations error, an APIError without status code that the retry
\* policy does not retry; it makes no further call and it does not hang.
C3_MaxIterationsExact == <>[]C3_Final

C3_Witness ==
    /\ turnPath = "converse"
    /\ turnPc = "done"
    /\ turnResult = TurnOutcome("maxIterations", APIError(0))
    /\ modelCalls = 20 /\ toolUseCalls = 20 /\ iteration = 20

\* C4: a streaming turn raises the max-iterations error only when all 10
\* model calls of the turn ended in tool-use; a turn whose last model call,
\* the k-th for any k in 1..10, ends with another stop reason appends the
\* assistant message and completes with no error event and no exception.
C4_StreamingErrorOnlyWhenExceeded ==
    turnPath = "converseStream" =>
        /\ turnResult.outcome = "maxIterations" =>
               /\ modelCalls = maxToolUseIterationsStreaming
               /\ lastResponse.stopReason = "tool_use"
        /\ turnPc = "done" /\ lastResponse.stopReason \notin {"tool_use", "none"}
           => /\ turnResult.outcome = "returned"
              /\ errorEvents = <<>>
              /\ lastOp = [op |-> "addMessage",
                           msg |-> Msg("assistant", lastResponse.content)]

(***************************************************************************)
(* One call of Agent.converse / Agent.converseStream: the long-term        *)
(* memory hooks around the turn loop, and buildConverseResponse            *)
(* (src/src/agent.ts, src/src/types/index.ts).                             *)
(***************************************************************************)
\* response.trace?.guardrail: absent, or present with its action field
GuardrailTrace(present, action) == [present |-> present, action |-> action]

NoTrace == GuardrailTrace(FALSE, "")

TracedResponse(reason, content, trace) ==
    [stopReason |-> reason, content |-> content, trace |-> trace]

\* texts whose trim() is empty
WhitespaceTexts == {"", " ", "  "}

trimmedLength(text) == IF text \in WhitespaceTexts THEN 0 ELSE Len(text)

\* messageText: the texts of the content blocks that have a non-empty text
RECURSIVE messageTextOf(_)
messageTextOf(content) ==
    IF content = <<>> THEN ""
    ELSE (IF Head(content).type = "text" /\ Head(content).text # ""
          THEN Head(content).text ELSE "")
         \o messageTextOf(Tail(content))

\* (guardrailTrace as any).action || 'NONE'
traceAction(trace) == IF trace.action = "" THEN "NONE" ELSE trace.action

\* the fallback is substituted inside if (guardrailTrace), for an action
\* INTERVENED or a stop reason guardrail_intervened, when the text is blank
needsFallback(response, messageText) ==
    /\ response.trace.present
    /\ traceAction(response.trace) = "INTERVENED"
         \/ response.stopReason = "guardrail_intervened"
    /\ trimmedLength(messageText) = 0

buildConverseResponse(response) ==
    [ message |-> IF needsFallback(response, messageTextOf(response.content))
                  THEN guardrailFallbackMessage
                  ELSE messageTextOf(response.content),
      stopReason |-> IF response.stopReason = "" THEN "end_turn" ELSE response.stopReason,
      guardrailAction |-> IF response.trace.present
                          THEN traceAction(response.trace) ELSE "undefined" ]

\* the completion of loadSession / saveSession for an outcome of the
\* callback: the catch block logs and does not rethrow
sessionCallCompletion_rethrows(hookOutcome) == hookOutcome

sessionCallCompletion(hookOutcome) == "resolves"

HookOutcomes == {"resolves", "throws", "rejects"}

HookCall(hook, outcome, messages) ==
    [hook |-> hook, outcome |-> outcome, messages |-> messages]

\* what the fetch callback may resolve with
FetchedHistories ==
    { <<>>,
      <<Msg("user", <<TextBlock("earlier")>>), Msg("assistant", <<TextBlock("reply")>>)>> }

\* what the model may answer in the call
SessionResponses ==
    { TracedResponse("tool_use", <<SearchToolUse("t0")>>, NoTrace),
      TracedResponse("end_turn", <<TextBlock("done")>>, NoTrace),
      TracedResponse("end_turn", <<>>, GuardrailTrace(TRUE, "INTERVENED")),
      TracedResponse("guardrail_intervened", <<>>, GuardrailTrace(TRUE, "INTERVENED")),
      TracedResponse("guardrail_intervened", <<TextBlock("  ")>>, GuardrailTrace(TRUE, "")),
      TracedResponse("guardrail_intervened", <<TextBlock("partial")>>, GuardrailTrace(TRUE, "")),
      TracedResponse("guardrail_intervened", <<>>, NoTrace),
      TracedResponse("content_filtered", <<>>, GuardrailTrace(TRUE, "NONE")) }

usesLongTerm == sessionInput.sessionId /\ sessionInput.longTerm

\* converse / converseStream has been called and has validated its input
SessionInit ==
    /\ MemIdle
    /\ maxMessages = TurnMemoryConfig.maxMessages
    /\ maxTokens = TurnMemoryConfig.maxTokens
    /\ RetryIdle /\ FilterIdle /\ StreamIdle /\ PoolIdle /\ LifeIdle
    /\ RestIdle
    /\ localTools = <<SearchTool>>
    /\ connections = <<>>
    /\ toolsOut = [op |-> "none"]
    /\ turnPath \in {"converse", "converseStream"}
    /\ turnPc = "idle"
    /\ iteration = 0
    /\ modelCalls = 0
    /\ toolUseCalls = 0
    /\ lastResponse = [stopReason |-> "none", content |-> <<>>]
    /\ pendingToolUses = <<>>
    /\ toolResults = <<>>
    /\ turnResult = [outcome |-> "none", error |-> NoError]
    /\ errorEvents = <<>>
    /\ sessPc = "start"
    /\ sessionInput \in [sessionId : BOOLEAN, longTerm : BOOLEAN]
    /\ hookCalls = <<>>
    /\ converseResponse = NoConverseResponse

\* if (input.sessionId && this.config.memory?.longTerm) await loadSession(...)
SessLoadSession(outcome, messages) ==
    /\ sessPc = "start" /\ usesLongTerm
    /\ outcome # "resolves" => messages = <<>>
    /\ IF outcome = "resolves" THEN loadSessionOk(messages) ELSE loadSessionFailed
    /\ hookCalls' = Append(hookCalls, HookCall("fetch", outcome, messages))
    /\ sessPc' = IF sessionCallCompletion(outcome) = "resolves" THEN "loaded" ELSE "thrown"
    /\ UNCHANGED <<sessionInput, converseResponse, turnVars, retryVars, filterVars,
                   toolVars, streamVars, poolVars, lifeVars, restVars>>

\* the user message is added and the turn loop is entered
SessAddUserMessage ==
    /\ sessPc = IF usesLongTerm THEN "loaded" ELSE "start"
    /\ addMessage(FirstUserMessage)
    /\ sessPc' = "loop"
    /\ turnPc' = "loop"
    /\ UNCHANGED <<turnPath, iteration, modelCalls, toolUseCalls, lastResponse,
                   pendingToolUses, toolResults, turnResult, errorEvents>>
    /\ UNCHANGED <<sessionInput, hookCalls, converseResponse, retryVars, filterVars,
                   toolVars, streamVars, poolVars, lifeVars, restVars>>

\* the turn loop has returned: the save callback is called and the response
\* is handed to the caller
SessLoopReturned(outcome) ==
    /\ sessPc = "loop" /\ turnPc = "done" /\ turnResult.outcome = "returned"
    /\ ~usesLongTerm => outcome = "resolves"
    /\ hookCalls' = IF usesLongTerm
                    THEN Append(hookCalls, HookCall("save", outcome, shortTermMemory))
                    ELSE hookCalls
    /\ sessPc' = IF sessionCallCompletion(outcome) = "resolves" THEN "returned" ELSE "thrown"
    /\ converseResponse' =
          IF turnPath = "converse" /\ sessionCallCompletion(outcome) = "resolves"
          THEN buildConverseResponse(lastResponse) ELSE converseResponse
    /\ UNCHANGED <<sessionInput, memVars, turnVars, retryVars, filterVars, toolVars,
                   streamVars, poolVars, lifeVars, restVars>>

\* the turn loop has thrown: the catch block logs and rethrows
SessLoopThrew ==
    /\ sessPc = "loop" /\ turnPc = "done" /\ turnResult.outcome # "returned"
    /\ sessPc' = "thrown"
    /\ UNCHANGED <<sessionInput, hookCalls, converseResponse, memVars, turnVars,
                   retryVars, filterVars, toolVars, streamVars, poolVars, lifeVars, restVars>>

SessionNext ==
    \/ \E outcome \in HookOutcomes, messages \in FetchedHistories :
          SessLoadSession(outcome, messages)
    \/ SessAddUserMessage
    \/ \E error \in ModelCallErrors : TurnModelCallFailed(error)
    \/ \E response \in SessionResponses : TurnModelCall(response)
    \/ \E outcome \in ReturningOutcomes : TurnExecuteTool(outcome)
    \/ TurnLoopExit
    \/ \E outcome \in HookOutcomes : SessLoopReturned(outcome)
    \/ SessLoopThrew

SpecSession == SessionInit /\ [][SessionNext]_vars

guardrailBlocked(response) ==
    /\ response.stopReason \in {"guardrail_intervened", "content_filtered"}
    /\ trimmedLength(messageTextOf(response.content)) = 0

\* C12: for every model response of converse whose stop reason is
\* guardrail_intervened or content_filtered and which holds no non-empty
\* text, the returned message is the fixed non-empty fallback string and the
\* response carries a guardrail-intervention signal.
C12_GuardrailFallback ==
    (sessPc = "returned" /\ turnPath = "converse" /\ guardrailBlocked(lastResponse)) =>
        /\ converseResponse.message = guardrailFallbackMessage
        /\ converseResponse.message # ""
        /\ converseResponse.guardrailAction # "undefined"

\* C13: with a session id and long-term hooks configured, the save hook is
\* invoked with the current history after the tool-use loop has finished,
\* whether the loop returned a response or failed.
C13_SavedWhateverTheOutcome ==
    (sessPc \in {"returned", "thrown"} /\ usesLongTerm) =>
        /\ hookCalls # <<>>
        /\ hookCalls[Len(hookCalls)].hook = "save"
        /\ hookCalls[Len(hookCalls)].messages = shortTermMemory

\* C14: a long-term fetch or save hook that throws or rejects never makes
\* converse or converseStream fail: a call fails only when its turn loop
\* has failed, a call whose fetch hook failed still goes on to its model
\* call, and a call whose loop returned hands the turn's response to the
\* caller whatever the hooks did.
C14_HookFailureSwallowed ==
    /\ sessPc = "thrown" => turnResult.outcome \notin {"none", "returned"}
    /\ (sessPc = "loop" /\ turnPc = "done" /\ usesLongTerm) =>
          hookCalls[Len(hookCalls)].hook = "fetch"
    /\ sessPc = "returned" =>
          /\ modelCalls >= 1
          /\ turnResult.outcome = "returned"
          /\ turnPath = "converse" => converseResponse = buildConverseResponse(lastResponse)
          /\ usesLongTerm => Len(hookCalls) = 2 /\ hookCalls[2].messages = shortTermMemory

C14_Witness ==
    /\ sessPc = "returned"
    /\ turnPath = "converse"
    /\ Len(hookCalls) = 2
    /\ hookCalls[1].hook = "fetch" /\ hookCalls[1].outcome = "throws"
    /\ hookCalls[2].hook = "save" /\ hookCalls[2].outcome = "rejects"
    /\ modelCalls = 1
    /\ converseResponse.message = "done"

(***************************************************************************)
(* McpClientManager: the registry of server connections                    *)
(* (src/src/mcp/client-manager.ts).  A registry entry keeps what the       *)
(* server listed, the tools left by the filter and the cached resources;   *)
(* serverCalls holds what the last operation asked of the servers.         *)
(***************************************************************************)
PoolConnection(name, state, fetched, tools, resources) ==
    [name |-> name, state |-> state, fetched |-> fetched, tools |-> tools,
     resources |-> resources]

ServerCall(server, op, arg, outcome) ==
    [server |-> server, op |-> op, arg |-> arg, outcome |-> outcome]

PoolResult(connections_, calls, thrown) ==
    [connections |-> connections_, calls |-> calls, thrown |-> thrown]

PoolConfigs ==
    { McpServerConfig("s1", NoToolFilter),
      McpServerConfig("s2", ToolFilter({}, {"calc"})) }

poolConfigOf(name) == CHOOSE config \in PoolConfigs : config.name = name

\* what a server lists
PoolCatalogs == {<<>>, <<"search">>, <<"calc", "search">>}

ResourceUris == {"file:///a", "file:///b"}

ResourceCatalogs == {<<>>, <<"file:///a">>, <<"file:///a", "file:///b">>}

PoolToolNames == {"search", "calc"}

CallOutcomes == {"ok", "fails"}

\* McpServerConnection.connect for a new connection whose server answers
connectedTo(config, names, uris) ==
    PoolConnection(config.name, "connected", names,
                   refreshTools(names, config.toolFilter, config.name), uris)

\* a connect that replaces the entry of a name already registered
poolConnect_replaces(conns, config, handshake, names, uris) ==
    IF handshake = "fails"
    THEN PoolResult(conns, <<ServerCall(config.name, "open", "", "fails")>>,
                    "McpConnectionError")
    ELSE PoolResult(mapSet(conns, connectedTo(config, names, uris)),
                    <<ServerCall(config.name, "open", "", "ok")>>, "none")

\* McpClientManager.connect
poolConnect(conns, config, handshake, names, uris) ==
    IF hasConnection(conns, config.name)
    THEN PoolResult(conns, <<>>, "Error")
    ELSE IF handshake = "fails"
    THEN PoolResult(conns, <<ServerCall(config.name, "open", "", "fails")>>,
                    "McpConnectionError")
    ELSE PoolResult(Append(conns, connectedTo(config, names, uris)),
                    <<ServerCall(config.name, "open", "", "ok")>>, "none")

\* McpClientManager.disconnect
poolDisconnect(conns, name, outcome) ==
    IF ~hasConnection(conns, name)
    THEN PoolResult(conns, <<>>, "Error")
    ELSE PoolResult(SelectSeq(conns, LAMBDA c : c.name # name),
                    <<ServerCall(name, "disconnect", "", outcome)>>,
                    IF outcome = "ok" THEN "none" ELSE "Error")

\* the disconnect calls of close, one for every entry in registry order
RECURSIVE disconnectAll(_, _)
disconnectAll(conns, failing) ==
    IF conns = <<>> THEN <<>>
    ELSE <<ServerCall(Head(conns).name, "disconnect", "",
                      IF Head(conns).name \in failing THEN "fails" ELSE "ok")>>
         \o disconnectAll(Tail(conns), failing)

\* a close that stops at the first disconnect that fails
RECURSIVE disconnectUntilFailure(_, _)
disconnectUntilFailure(conns, failing) ==
    IF conns = <<>> THEN <<>>
    ELSE IF Head(conns).name \in failing
    THEN <<ServerCall(Head(conns).name, "disconnect", "", "fails")>>
    ELSE <<ServerCall(Head(conns).name, "disconnect", "", "ok")>>
         \o disconnectUntilFailure(Tail(conns), failing)

poolClose_stopsAtFailure(conns, failing) ==
    IF \E i \in 1..Len(conns) : conns[i].name \in failing
    THEN PoolResult(conns, disconnectUntilFailure(conns, failing), "Error")
    ELSE PoolResult(<<>>, disconnectAll(conns, failing), "none")

\* McpClientManager.close: every disconnect is awaited with its failure
\* caught, then the registry is cleared
poolClose(conns, failing) == PoolResult(<<>>, disconnectAll(conns, failing), "none")

\* an executeTool that calls every connected server that has the tool
RECURSIVE callEveryServer(_, _, _)
callEveryServer(conns, toolName, remote) ==
    IF conns = <<>> THEN <<>>
    ELSE (IF isConnected(Head(conns)) /\ hasTool(Head(conns), toolName)
          THEN <<ServerCall(Head(conns).name, "callTool", toolName, remote)>>
          ELSE <<>>)
         \o callEveryServer(Tail(conns), toolName, remote)

poolExecuteTool_everyServer(conns, toolName, remote) ==
    IF findToolServer(conns, toolName) = 0
    THEN PoolResult(conns, <<>>, "McpToolExecutionError:unknown:not found")
    ELSE PoolResult(conns, callEveryServer(conns, toolName, remote),
                    IF remote = "ok" THEN "none" ELSE "McpToolExecutionError")

\* McpClientManager.executeTool
poolExecuteTool(conns, toolName, remote) ==
    IF findToolServer(conns, toolName) = 0
    THEN PoolResult(conns, <<>>, "McpToolExecutionError:unknown:not found")
    ELSE PoolResult(conns,
                    <<ServerCall(conns[findToolServer(conns, toolName)].name,
                                 "callTool", toolName, remote)>>,
                    IF remote = "ok" THEN "none" ELSE "McpToolExecutionError")

listsResource(connection, uri) ==
    \E k \in 1..Len(connection.resources) : connection.resources[k] = uri

\* the loop of getResource: a server that is connected and lists the uri is
\* read; a read that fails is caught and the loop goes on to the next server
RECURSIVE readInOrder(_, _, _)
readInOrder(conns, uri, failing) ==
    IF conns = <<>> THEN <<>>
    ELSE IF isConnected(Head(conns)) /\ listsResource(Head(conns), uri)
    THEN IF Head(conns).name \in failing
         THEN <<ServerCall(Head(conns).name, "readResource", uri, "fails")>>
              \o readInOrder(Tail(conns), uri, failing)
         ELSE <<ServerCall(Head(conns).name, "readResource", uri, "ok")>>
    ELSE readInOrder(Tail(conns), uri, failing)

\* McpClientManager.getResource
poolGetResource(conns, uri, failing) ==
    LET calls == readInOrder(conns, uri, failing)
    IN  PoolResult(conns, calls,
                   IF calls # <<>> /\ calls[Len(calls)].outcome = "ok"
                   THEN "none" ELSE "McpResourceError:unknown:not found")

\* McpServerConnection.disconnect on a registered connection
connectionDisconnect(conns, i) ==
    [conns EXCEPT ![i] = PoolConnection(@.name, "disconnected", @.fetched, <<>>, <<>>)]

PoolInit ==
    /\ MemIdle /\ maxMessages = DEFAULT_MAX_MESSAGES /\ maxTokens = DEFAULT_MAX_TOKENS
    /\ RetryIdle /\ FilterIdle /\ StreamIdle /\ TurnIdle /\ SessionIdle /\ LifeIdle
    /\ RestIdle
    /\ localTools = <<>>
    /\ connections = <<>>
    /\ toolsOut = [op |-> "none"]
    /\ serverCalls = <<>>

\* the registry, the calls and the outcome an operation leaves
poolStep(op, arg, result) ==
    /\ connections' = result.connections
    /\ serverCalls' = result.calls
    /\ toolsOut' = [op |-> op, arg |-> arg, thrown |-> result.thrown]
    /\ UNCHANGED <<localTools, memVars, retryVars, filterVars, streamVars, turnVars,
                   sessionVars, lifeVars, restVars>>

PoolConnect(config, handshake, names, uris) ==
    /\ (hasConnection(connections, config.name) \/ handshake = "fails")
          => names = <<>> /\ uris = <<>>
    /\ poolStep("connect", config.name, poolConnect(connections, config, handshake, names, uris))

PoolDisconnect(name, outcome) ==
    /\ ~hasConnection(connections, name) => outcome = "ok"
    /\ poolStep("disconnect", name, poolDisconnect(connections, name, outcome))

PoolConnectionDisconnect(i) ==
    /\ i \in 1..Len(connections)
    /\ poolStep("connection.disconnect", connections[i].name,
             PoolResult(connectionDisconnect(connections, i),
                        <<ServerCall(connections[i].name, "disconnect", "", "ok")>>, "none"))

\* McpClientManager.close, and Agent.cleanup which calls it
PoolClose(failing) ==
    /\ \A name \in failing : hasConnection(connections, name)
    /\ poolStep("close", "", poolClose(connections, failing))

PoolExecuteTool(toolName, remote) ==
    /\ findToolServer(connections, toolName) = 0 => remote = "ok"
    /\ poolStep("executeTool", toolName, poolExecuteTool(connections, toolName, remote))

PoolGetResource(uri, failing) ==
    /\ \A name \in failing :
          \E i \in 1..Len(connections) :
             /\ connections[i].name = name
             /\ isConnected(connections[i]) /\ listsResource(connections[i], uri)
    /\ poolStep("getResource", uri, poolGetResource(connections, uri, failing))

PoolServerNames == {config.name : config \in PoolConfigs}

PoolNext ==
    \/ \E config \in PoolConfigs, handshake \in CallOutcomes, names \in PoolCatalogs,
          uris \in ResourceCatalogs : PoolConnect(config, handshake, names, uris)
    \/ \E name \in PoolServerNames, outcome \in CallOutcomes : PoolDisconnect(name, outcome)
    \/ \E i \in 1..Len(connections) : PoolConnectionDisconnect(i)
    \/ \E failing \in SUBSET PoolServerNames : PoolClose(failing)
    \/ \E toolName \in PoolToolNames, remote \in CallOutcomes :
          PoolExecuteTool(toolName, remote)
    \/ \E uri \in ResourceUris, failing \in SUBSET PoolServerNames :
          PoolGetResource(uri, failing)

SpecPool == PoolInit /\ [][PoolNext]_vars

callsOf(op) == SelectSeq(serverCalls, LAMBDA call : call.op = op)

\* C15: connect called with the name of a server already in the registry
\* rejects with an error without opening a transport, and leaves the
\* registry and the existing connection unchanged.
C15_DuplicateConnectRejected ==
    [][ (toolsOut'.op = "connect" /\ hasConnection(connections, toolsOut'.arg)) =>
            /\ toolsOut'.thrown = "Error"
            /\ serverCalls' = <<>>
            /\ connections' = connections ]_vars

C15_Witness ==
    /\ toolsOut.op = "connect" /\ toolsOut.arg = "s1" /\ toolsOut.thrown = "Error"
    /\ serverCalls = <<>>
    /\ Len(connections) = 2
    /\ connections[1].name = "s1" /\ connections[1].tools # <<>>

\* C16: when close() returns the registry is empty and every server that was
\* registered has been asked to disconnect, even when some disconnects
\* fail; a further close() succeeds and changes nothing.
C16_CloseClearsRegistry ==
    [][ toolsOut'.op = "close" =>
            /\ toolsOut'.thrown = "none"
            /\ connections' = <<>>
            /\ Len(serverCalls') = Len(connections)
            /\ \A i \in 1..Len(connections) :
                  /\ serverCalls'[i].server = connections[i].name
                  /\ serverCalls'[i].op = "disconnect"
            /\ connections = <<>> => serverCalls' = <<>> ]_vars

C16_Witness ==
    /\ toolsOut.op = "close" /\ toolsOut.thrown = "none"
    /\ connections = <<>>
    /\ Len(serverCalls) = 2
    /\ serverCalls[1].outcome = "fails" /\ serverCalls[2].outcome = "ok"

\* connection i is connected and exposes the name after filtering
exposesTool(connection, toolName) ==
    /\ connection.state = "connected"
    /\ \E k \in 1..Len(connection.fetched) : connection.fetched[k] = toolName
    /\ exposed([name |-> toolName], poolConfigOf(connection.name).toolFilter)

\* C19: executeTool(name, input) calls the tool on the first server, in
\* registration order, that is connected and exposes name after filtering,
\* and on no other server; if no connected server exposes name it fails with
\* the typed not-found tool-execution error without calling any server.
C19_FirstServerExecutes ==
    [][ toolsOut'.op = "executeTool" =>
            IF \E i \in 1..Len(connections) : exposesTool(connections[i], toolsOut'.arg)
            THEN /\ Len(serverCalls') = 1
                 /\ serverCalls'[1].op = "callTool" /\ serverCalls'[1].arg = toolsOut'.arg
                 /\ \E i \in 1..Len(connections) :
                       /\ connections[i].name = serverCalls'[1].server
                       /\ exposesTool(connections[i], toolsOut'.arg)
                       /\ \A j \in 1..(i - 1) : ~exposesTool(connections[j], toolsOut'.arg)
            ELSE /\ serverCalls' = <<>>
                 /\ toolsOut'.thrown = "McpToolExecutionError:unknown:not found" ]_vars

C19_Witness ==
    /\ toolsOut.op = "executeTool" /\ toolsOut.arg = "search" /\ toolsOut.thrown = "none"
    /\ Len(connections) = 2
    /\ connections[1].state = "disconnected"
    /\ \E k \in 1..Len(connections[1].fetched) : connections[1].fetched[k] = "search"
    /\ exposesTool(connections[2], "search")
    /\ serverCalls = <<ServerCall(connections[2].name, "callTool", "search", "ok")>>

\* C20: getResource(uri) reads the resource only from the first connected
\* server, in registration order, whose cached resource catalog contains
\* uri, and never from a later server; if no connected server lists uri it
\* fails with the typed resource error.
C20_FirstServerRead ==
    [][ toolsOut'.op = "getResource" =>
            LET listing == {i \in 1..Len(connections) :
                              /\ isConnected(connections[i])
                              /\ listsResource(connections[i], toolsOut'.arg)}
            IN  IF listing = {}
                THEN /\ serverCalls' = <<>>
                     /\ toolsOut'.thrown = "McpResourceError:unknown:not found"
                ELSE /\ Len(serverCalls') = 1
                     /\ serverCalls'[1].op = "readResource"
                     /\ \E i \in listing :
                           /\ connections[i].name = serverCalls'[1].server
                           /\ \A j \in listing : i <= j ]_vars

(***************************************************************************)
(* One McpServerConnection: status and reconnection                        *)
(* (src/src/mcp/connection.ts).  The RetryHandler the constructor builds   *)
(* for reconnection keeps its loop counter in attempt, invocations and     *)
(* waits.                                                                  *)
(***************************************************************************)
MaxAttemptsLimit == 3

\* the transport opens followed in one run
MaxConnectCalls == 14

ConnectionStatus(state, att) == [state |-> state, attempt |-> att]

ReconnectConfig(enabled, maxAttempts, baseDelay, maxDelay) ==
    [enabled |-> enabled, maxAttempts |-> maxAttempts, baseDelay |-> baseDelay,
     maxDelay |-> maxDelay]

ReconnectDelays == {<<1000, 30000>>, <<1000, 1500>>, <<100, 5000>>}

\* the error codes the reconnection RetryHandler is built with
reconnectRetryableErrors ==
    {"API_TIMEOUT", "API_INTERNAL_ERROR", "API_ERROR", "MCP_CONNECTION_ERROR",
     "MCP_SERVER_UNAVAILABLE"}

McpConnectionError == AgentError("McpConnectionError", "MCP_CONNECTION_ERROR")

\* RetryHandler.shouldRetry of the reconnection handler
reconnectShouldRetry(error, att, maxRetries) ==
    IF att > maxRetries THEN FALSE ELSE error.code \in reconnectRetryableErrors

\* a shouldReconnect that does not look at the status
shouldReconnect_evenConnected(cfg, attempts, status) ==
    IF ~cfg.enabled THEN FALSE
    ELSE IF cfg.maxAttempts > 0 /\ attempts >= cfg.maxAttempts THEN FALSE
    ELSE TRUE

\* a shouldReconnect that allows one attempt more
shouldReconnect_oneMore(cfg, attempts, status) ==
    IF ~cfg.enabled THEN FALSE
    ELSE IF cfg.maxAttempts > 0 /\ attempts > cfg.maxAttempts THEN FALSE
    ELSE IF isConnected(status) THEN FALSE
    ELSE TRUE

shouldReconnect(cfg, attempts, status) ==
    IF ~cfg.enabled THEN FALSE
    ELSE IF cfg.maxAttempts > 0 /\ attempts >= cfg.maxAttempts THEN FALSE
    ELSE IF isConnected(status) THEN FALSE
    ELSE TRUE

\* Math.min(baseDelay * Math.pow(2, reconnectAttempts - 1), maxDelay)
reconnectDelay(cfg, attempts) == Min(cfg.baseDelay * Pow2(attempts - 1), cfg.maxDelay)

\* new McpServerConnection(config, ...)
LifeInit ==
    /\ MemIdle /\ maxMessages = DEFAULT_MAX_MESSAGES /\ maxTokens = DEFAULT_MAX_TOKENS
    /\ FilterIdle /\ ToolsIdle /\ StreamIdle /\ TurnIdle /\ SessionIdle /\ PoolIdle
    /\ RestIdle
    /\ \E enabled \in BOOLEAN, n \in 1..MaxAttemptsLimit, d \in ReconnectDelays :
          /\ reconnectConfig = ReconnectConfig(enabled, n, d[1], d[2])
          /\ retryConfig = [maxRetries |-> n, baseDelay |-> d[1], maxDelay |-> d[2]]
    /\ retryPc = "idle"
    /\ attempt = 0
    /\ lastError = NoError
    /\ invocations = 0
    /\ waits = 0
    /\ lastDelay = 0
    /\ connStatus = ConnectionStatus("disconnected", 0)
    /\ reconnectAttempts = 0
    /\ reconnectPc = "idle"
    /\ connectCalls = 0
    /\ backoffWaits = <<>>

notLife == <<memVars, filterVars, toolVars, streamVars, turnVars, sessionVars, poolVars,
             restVars>>

noReconnectInFlight == reconnectPc \in {"idle", "rejected", "connected", "failed"}

\* connect() called on the connection
LifeConnect(ok) ==
    /\ noReconnectInFlight
    /\ connectCalls < MaxConnectCalls
    /\ connectCalls' = connectCalls + 1
    /\ connStatus' = ConnectionStatus(IF ok THEN "connected" ELSE "error", 0)
    /\ reconnectAttempts' = IF ok THEN 0 ELSE reconnectAttempts
    /\ reconnectPc' = "idle"
    /\ backoffWaits' = <<>>
    /\ UNCHANGED <<reconnectConfig, retryVars, notLife>>

\* disconnect() called on the connection
LifeDisconnect ==
    /\ noReconnectInFlight
    /\ connStatus' = ConnectionStatus("disconnected", 0)
    /\ reconnectPc' = "idle"
    /\ backoffWaits' = <<>>
    /\ UNCHANGED <<reconnectConfig, reconnectAttempts, connectCalls, retryVars, notLife>>

\* attemptReconnect up to the call of connect(): the check, the counter, the
\* status, and the entry of executeWithRetry
enterAttemptReconnect ==
    IF ~shouldReconnect(reconnectConfig, reconnectAttempts, connStatus)
    THEN /\ reconnectPc' = "rejected"
         /\ UNCHANGED <<connStatus, reconnectAttempts, retryVars>>
    ELSE /\ reconnectAttempts' = reconnectAttempts + 1
         /\ connStatus' = ConnectionStatus("reconnecting", reconnectAttempts + 1)
         /\ reconnectPc' = "connecting"
         /\ retryPc' = "loop"
         /\ attempt' = 0
         /\ lastError' = NoError
         /\ invocations' = 0
         /\ waits' = 0
         /\ UNCHANGED <<retryConfig, lastDelay>>

\* attemptReconnect() called on the connection
LifeAttemptReconnect ==
    /\ noReconnectInFlight
    /\ shouldReconnect(reconnectConfig, reconnectAttempts, connStatus)
          => connectCalls < MaxConnectCalls
    /\ enterAttemptReconnect
    /\ backoffWaits' = IF shouldReconnect(reconnectConfig, reconnectAttempts, connStatus)
                       THEN <<>> ELSE backoffWaits
    /\ UNCHANGED <<reconnectConfig, connectCalls, notLife>>

\* the connect() of a reconnection attempt succeeds
LifeReconnectConnected ==
    /\ reconnectPc = "connecting"
    /\ connectCalls' = connectCalls + 1
    /\ connStatus' = ConnectionStatus("connected", 0)
    /\ reconnectAttempts' = 0
    /\ reconnectPc' = "connected"
    /\ retryPc' = "returned"
    /\ invocations' = invocations + 1
    /\ UNCHANGED <<reconnectConfig, backoffWaits, retryConfig, attempt, lastError, waits,
                   lastDelay, notLife>>

\* the connect() of a reconnection attempt fails: the handler retries it, or
\* gives up and the catch block of attemptReconnect decides
LifeReconnectFailed ==
    /\ reconnectPc = "connecting"
    /\ connectCalls' = connectCalls + 1
    /\ invocations' = invocations + 1
    /\ attempt' = attempt + 1
    /\ lastError' = McpConnectionError
    /\ IF reconnectShouldRetry(McpConnectionError, attempt + 1, retryConfig.maxRetries)
       THEN /\ connStatus' = ConnectionStatus("error", 0)
            /\ retryPc' = "sleeping"
            /\ waits' = waits + 1
            /\ reconnectPc' = "retrying"
            /\ UNCHANGED backoffWaits
       ELSE /\ retryPc' = "thrown"
            /\ UNCHANGED waits
            /\ IF shouldReconnect(reconnectConfig, reconnectAttempts,
                                  ConnectionStatus("error", 0))
               THEN /\ connStatus' = ConnectionStatus("error", 0)
                    /\ backoffWaits' =
                          Append(backoffWaits, reconnectDelay(reconnectConfig, reconnectAttempts))
                    /\ reconnectPc' = "sleeping"
               ELSE /\ connStatus' = ConnectionStatus("error", 0)
                    /\ reconnectPc' = "failed"
                    /\ UNCHANGED backoffWaits
    /\ UNCHANGED <<reconnectConfig, reconnectAttempts, retryConfig, lastDelay, notLife>>

\* the sleep of the retry handler is over
LifeRetrySleepDone ==
    /\ reconnectPc = "retrying"
    /\ reconnectPc' = "connecting"
    /\ retryPc' = "loop"
    /\ UNCHANGED <<connStatus, reconnectConfig, reconnectAttempts, connectCalls,
                   backoffWaits, retryConfig, attempt, lastError, invocations, waits,
                   lastDelay, notLife>>

\* the backoff of attemptReconnect is over: return this.attemptReconnect()
LifeBackoffDone ==
    /\ reconnectPc = "sleeping"
    /\ enterAttemptReconnect
    /\ UNCHANGED <<reconnectConfig, connectCalls, backoffWaits, notLife>>

LifeNext ==
    \/ \E ok \in BOOLEAN : LifeConnect(ok)
    \/ LifeDisconnect
    \/ LifeAttemptReconnect
    \/ LifeReconnectConnected
    \/ LifeReconnectFailed
    \/ LifeRetrySleepDone
    \/ LifeBackoffDone

SpecLife == LifeInit /\ [][LifeNext]_vars

\* C18 as stated: connected is reached from disconnected only through
\* connecting, reconnecting(attempt) is entered only from connected or error
\* and always with attempt >= 1.
C18_StatedStateMachine ==
    [][ /\ (connStatus'.state = "connected" /\ connStatus.state # "connected")
              => connStatus.state \in {"connecting", "reconnecting"}
        /\ (connStatus'.state = "reconnecting" /\ connStatus' # connStatus)
              => connStatus.state \in {"connected", "error"} /\ connStatus'.attempt >= 1
      ]_vars

\* C18, amended: the status is one of disconnected, connected, reconnecting
\* and error (there is no connecting state); connected is entered only by a
\* connect() that succeeds, directly from disconnected, error or
\* reconnecting; reconnecting(attempt) is entered only from a status that is
\* not connected (never from connected), with attempt >= 1 equal to the
\* attempt counter just incremented; a connect() that fails leaves error
\* whatever the status was.
C18_StatusStateMachine ==
    [][ /\ connStatus'.state \in {"disconnected", "connected", "reconnecting", "error"}
        /\ (connStatus'.state = "connected" /\ connStatus.state # "connected")
              => /\ connectCalls' = connectCalls + 1
                 /\ connStatus.state \in {"disconnected", "error", "reconnecting"}
                 /\ reconnectAttempts' = 0
        /\ (connStatus'.state = "reconnecting" /\ connStatus' # connStatus)
              => /\ connStatus.state # "connected"
                 /\ connStatus'.attempt >= 1
                 /\ connStatus'.attempt = reconnectAttempts'
                 /\ reconnectAttempts' = reconnectAttempts + 1
        /\ (connectCalls' = connectCalls + 1 /\ connStatus'.state # "connected")
              => connStatus'.state = "error"
      ]_vars

C18_Witness ==
    /\ connStatus = ConnectionStatus("reconnecting", 2)
    /\ reconnectAttempts = 2
    /\ reconnectPc = "connecting"
    /\ backoffWaits = <<reconnectDelay(reconnectConfig, 1)>>
    /\ connectCalls >= 3

(***************************************************************************)
(* Reconnection against a server that never accepts a connection           *)
(***************************************************************************)
ReconnectInit == LifeInit /\ reconnectConfig.enabled

ReconnectNext ==
    \/ LifeAttemptReconnect
    \/ LifeReconnectFailed
    \/ LifeRetrySleepDone
    \/ LifeBackoffDone

SpecReconnect == ReconnectInit /\ [][ReconnectNext]_vars /\ WF_vars(ReconnectNext)

\* the backoff delays of a reconnection that gave up after n attempts
backoffsUpTo(cfg, n) ==
    [a \in 1..(n - 1) |-> Min(cfg.baseDelay * Pow2(a - 1), cfg.maxDelay)]

C17_Settled ==
    /\ reconnectPc \in {"failed", "rejected"}
    /\ connStatus.state = "error"
    /\ reconnectAttempts = reconnectConfig.maxAttempts
    /\ backoffWaits = backoffsUpTo(reconnectConfig, reconnectConfig.maxAttempts)

\* C17: against a server that never accepts a connection, with reconnection
\* enabled and maxAttempts = N > 0, attemptReconnect eventually stops with
\* the connection settled in state error and the attempt counter at exactly N,
\* having waited min(baseDelay * 2^(attempt-1), maxDelay) between attempts;
\* the counter never passes N, and any later attemptReconnect is rejected
\* without a connection attempt.
C17_ReconnectGivesUp ==
    /\ <>[]C17_Settled
    /\ [](reconnectAttempts <= reconnectConfig.maxAttempts)
    /\ [][reconnectPc' = "rejected" =>
             /\ connectCalls' = connectCalls
             /\ connStatus' = connStatus
             /\ reconnectAttempts' = reconnectAttempts]_vars

C17_Witness ==
    /\ reconnectPc = "rejected"
    /\ reconnectConfig = ReconnectConfig(TRUE, 3, 1000, 1500)
    /\ connStatus.state = "error"
    /\ reconnectAttempts = 3
    /\ backoffWaits = <<1000, 1500>>

(***************************************************************************)
(* The end of the event stream.  StreamHandler.processStream leaves its    *)
(* for-await loop when the model's stream is exhausted, whether or not a   *)
(* messageStop event was among the events; the loop of                     *)
(* processStreamingConversationTurn then ends with stopReason still at its *)
(* initial 'end_turn' (src/src/agent.ts:733, 787-788).                     *)
(***************************************************************************)
hasMessageStop(events) ==
    \E k \in 1..Len(events) : events[k].type = "messageStop"

\* C21: a streamed model call whose event stream ends without a messageStop
\* event is never completed as a normal end of turn: the assistant message is
\* appended to memory only when a messageStop event was received.
C21_NoCompletionWithoutMessageStop ==
    streamPc = "appended" => hasMessageStop(streamEvents)

(***************************************************************************)
(* A stream that stops producing events.  The StreamHandler constructor    *)
(* stores config.streamTimeout, 300000 ms by default                       *)
(* (src/src/stream/handler.ts:48-51); processStream awaits the next chunk  *)
(* of the stream in a plain for-await loop (119) and no timer is armed     *)
(* anywhere in the handler or in the agent.  Time is counted in steps of   *)
(* ClockStep milliseconds.                                                 *)
(***************************************************************************)
streamTimeout == 300000

ClockStep == 100000

MaxElapsedMs == 500000

MaxStallEvents == 1

\* an event of the stream reaches processStreamingConversationTurn
StallDeliver(event) ==
    /\ Len(streamEvents) < MaxStallEvents
    /\ \/ StreamContentBlockStart(event)
       \/ StreamContentBlockDelta(event)
       \/ StreamContentBlockStop(event)

\* the model's stream produces nothing more and does not end: the for-await
\* of processStream stays pending
StreamStalls ==
    /\ streamPc = "streaming"
    /\ streamPc' = "stalled"
    /\ UNCHANGED <<streamEvents, accumulatedContent, currentToolUseInput, stopReason,
                   memVars, notStream>>

\* time passes while the model call is in progress; no step of the handler or
\* of the agent reads the clock, so a stalled call has no step left but this
\* one, however long it waits
ClockTick ==
    /\ streamPc \in {"streaming", "stalled"}
    /\ elapsedMs < MaxElapsedMs
    /\ elapsedMs' = elapsedMs + ClockStep
    /\ UNCHANGED <<coreVars, execVars, histVars, requestVars, equivVars, asyncVars>>

StallNext ==
    \/ \E event \in ContentEvents : StallDeliver(event)
    \/ \E reason \in StopReasons : StreamMessageStop(reason)
    \/ StreamErrorEvent
    \/ StreamEnd
    \/ StreamStalls
    \/ ClockTick

\* every step the handler or the clock can take is eventually taken
SpecStall == StreamInit /\ [][StallNext]_vars /\ WF_vars(StallNext)

\* C22: a stream that has stopped producing events without ending does not
\* hang the turn forever: once streamTimeout milliseconds have elapsed the
\* model call fails.
C22_StalledStreamTimesOut ==
    (streamPc = "stalled" /\ elapsedMs >= streamTimeout) ~> (streamPc = "failed")

\* C23: in converseStream, the error event yielded when the model's stream
\* fails is terminal: it is the only error event of the turn, nothing is
\* yielded after it, and the generator then throws.
C23_ErrorEventTerminal ==
    (turnPath = "converseStream" /\ turnResult.outcome = "modelCallFailed")
        => Len(errorEvents) <= 1

(***************************************************************************)
(* The tool calls of one iteration, a call being split into the start of   *)
(* executeTool and its settling.  Both turn loops run                      *)
(* `for (const toolUse of toolUses) { await executeTool(toolUse) ... }`    *)
(* (src/src/agent.ts:320-333 and 892-912): the await of one call precedes  *)
(* the next pass of the for loop.                                          *)
(***************************************************************************)
\* a loop that starts the calls without awaiting them one by one
nextCallMayStart_concurrent(running) == TRUE

\* the for loop reaches executeTool again only after the previous await
nextCallMayStart(running) == running = <<>>

notExec == <<retryVars, filterVars, toolVars, streamVars, sessionVars, poolVars, lifeVars,
             clockVars, histVars, requestVars, equivVars, asyncVars>>

\* executeTool is called for the next tool use of the response
OrderToolStart ==
    /\ turnPc = "tools"
    /\ Len(runningTools) < Len(pendingToolUses)
    /\ nextCallMayStart(runningTools)
    /\ runningTools' = Append(runningTools, pendingToolUses[Len(runningTools) + 1])
    /\ UNCHANGED <<memVars, turnVars, notExec>>

\* the call settles: its result is pushed; after the last one the results are
\* appended as a user message
OrderToolSettle(outcome) ==
    LET toolUse == Head(runningTools)
        result == executeTool(localTools, connections, toolUse, outcome, "ok")
        results == Append(toolResults,
                          ToolResultBlock(result.toolUseId, <<TextBlock(result.text)>>,
                                          result.status))
    IN  /\ turnPc = "tools" /\ runningTools # <<>>
        /\ outcome # "returns" => handlerInvoked(localTools, toolUse)
        /\ runningTools' = Tail(runningTools)
        /\ IF result.completion = "thrown"
           THEN /\ turnThrows("toolThrew", PlainError(result.text), <<>>)
                /\ UNCHANGED <<pendingToolUses, toolResults, memVars>>
           ELSE /\ pendingToolUses' = Tail(pendingToolUses)
                /\ toolResults' = results
                /\ IF Tail(pendingToolUses) = <<>>
                   THEN addMessage(Msg("user", results)) /\ turnPc' = "loop"
                   ELSE UNCHANGED <<memVars, turnPc>>
                /\ UNCHANGED <<turnResult, errorEvents>>
        /\ UNCHANGED <<turnPath, iteration, modelCalls, toolUseCalls, lastResponse, notExec>>

OrderNext ==
    \/ \E error \in ModelCallErrors : TurnModelCallFailed(error)
    \/ \E response \in ModelResponses : TurnModelCall(response)
    \/ OrderToolStart
    \/ \E outcome \in HandlerOutcomes : OrderToolSettle(outcome)
    \/ TurnLoopExit

SpecToolOrder == TurnInit /\ [][OrderNext]_vars

\* the results so far answer, in order, the first tool-use blocks of the
\* response, and the call in progress is for the next block
C24_InOrder ==
    LET uses == extractToolUses(lastResponse.content)
    IN  /\ Len(runningTools) <= 1
        /\ turnPc = "tools" =>
               /\ Len(toolResults) + Len(pendingToolUses) = Len(uses)
               /\ \A k \in 1..Len(toolResults) : toolResults[k].toolUseId = uses[k].toolUseId
               /\ runningTools # <<>> =>
                      /\ Len(toolResults) < Len(uses)
                      /\ runningTools = <<uses[Len(toolResults) + 1]>>

\* C24: within a turn the tool calls run one at a time in the order of the
\* tool-use blocks of the response (call k+1 is not started before call k has
\* given its result), and a model call is made only when no call is in
\* progress and every tool use of the previous response has its result.
C24_ToolCallsSequential ==
    /\ []C24_InOrder
    /\ [][iteration' # iteration =>
              /\ runningTools = <<>>
              /\ lastResponse.stopReason = "tool_use" =>
                     Len(toolResults) = Len(extractToolUses(lastResponse.content))]_vars

\* the second of two tool calls is in progress, the first having its result
C24_Witness ==
    /\ turnPc = "tools"
    /\ lastResponse = ModelResponse("tool_use", <<SearchToolUse("t0"), SearchToolUse("t1")>>)
    /\ Len(toolResults) = 1 /\ toolResults[1].toolUseId = "t0"
    /\ runningTools = <<Head(extractToolUses(<<SearchToolUse("t1")>>))>>
    /\ iteration = 2

\* the response asks for tools and carries no tool-use block
toolUseWithoutBlock(response) ==
    response.stopReason = "tool_use" /\ extractToolUses(response.content) = <<>>

\* C25: a response with stop reason tool_use and no tool-use block ends the
\* turn as an end-of-turn response does, in converse and in converseStream:
\* the assistant message is the last message of memory, no tool is executed
\* and the turn returns.  Turns that used all their model calls are left out
\* (they are the matter of C4).
C25_ToolUseWithoutBlockEndsTurn ==
    (turnPc = "done" /\ toolUseWithoutBlock(lastResponse) /\ modelCalls < maxToolUseIterationsStreaming)
        => /\ turnResult.outcome = "returned"
           /\ shortTermMemory # <<>>
           /\ shortTermMemory[Len(shortTermMemory)] = Msg("assistant", lastResponse.content)
           /\ toolResults = <<>>

(***************************************************************************)
(* Successive calls of converse / converseStream on one agent.  The        *)
(* request of a model call carries the conversation history, which is the  *)
(* MemoryStore after the last addMessage (src/src/agent.ts:437-441,        *)
(* 954-960).  The model gives every tool-use block an id of its own: the   *)
(* id is a number made of the call, the iteration and the block.           *)
(***************************************************************************)
MaxTurns == 2

freshToolUseId(turn, iter, k) == (turn * 100) + (iter * 2) + k

\* what the model may answer at iteration iter of call number turn
HistoryResponses(turn, iter) ==
    { ModelResponse("tool_use", <<TextBlock("checking"), SearchToolUse(freshToolUseId(turn, iter, 0))>>),
      ModelResponse("tool_use", <<SearchToolUse(freshToolUseId(turn, iter, 0)),
                                  SearchToolUse(freshToolUseId(turn, iter, 1))>>),
      ModelResponse("tool_use", <<TextBlock("done")>>),
      ModelResponse("end_turn", <<TextBlock("done")>>) }

notHist == <<retryVars, filterVars, toolVars, streamVars, sessionVars, poolVars, lifeVars,
             clockVars, execVars, requestVars, equivVars, asyncVars>>

\* the call has ended and the next one is made: the user message is appended
\* and a turn loop starts
HistNextTurn(path) ==
    /\ turnPc = "done" /\ turnsCompleted + 1 < MaxTurns
    /\ turnsCompleted' = turnsCompleted + 1
    /\ addMessage(FirstUserMessage)
    /\ turnPath' = path
    /\ turnPc' = "loop"
    /\ iteration' = 0 /\ modelCalls' = 0 /\ toolUseCalls' = 0
    /\ lastResponse' = [stopReason |-> "none", content |-> <<>>]
    /\ pendingToolUses' = <<>> /\ toolResults' = <<>>
    /\ turnResult' = [outcome |-> "none", error |-> NoError]
    /\ errorEvents' = <<>>
    /\ UNCHANGED notHist

HistoryNext ==
    \/ \E error \in ModelCallErrors : TurnModelCallFailed(error)
    \/ \E response \in HistoryResponses(turnsCompleted, iteration + 1) : TurnModelCall(response)
    \/ \E outcome \in HandlerOutcomes : TurnExecuteTool(outcome)
    \/ TurnLoopExit
    \/ \E path \in {"converse", "converseStream"} : HistNextTurn(path)

SpecHistory == TurnInit /\ [][HistoryNext]_vars

\* the tool-result blocks with this id in the messages after message m
resultsAfter(history, m, id) ==
    UNION { { <<n, c>> : c \in { c \in 1..Len(history[n].content) :
                                   /\ history[n].content[c].type = "toolResult"
                                   /\ history[n].content[c].toolUseId = id } } :
            n \in (m + 1)..Len(history) }

toolUsesMatched(history) ==
    \A m \in 1..Len(history) : \A b \in 1..Len(history[m].content) :
        history[m].content[b].type = "toolUse"
            => Cardinality(resultsAfter(history, m, history[m].content[b].toolUseId)) = 1

\* C26: whenever a model call is made, every tool-use block of the history it
\* sends is matched by exactly one later tool-result block with the same id.
C26_ToolUsesMatched ==
    (turnPc = "loop" /\ loopContinues(iteration, maxIterationsOf(turnPath)))
        => toolUsesMatched(shortTermMemory)

(***************************************************************************)
(* The agent's configuration and the building of a model request           *)
(* (src/src/agent.ts).  The constructor starts one connect per configured  *)
(* MCP server and keeps the promises (140-159); buildConverseRequest and   *)
(* buildConverseStreamRequest fill the system prompts of the request and   *)
(* then await getAllToolSpecs, which awaits ensureMcpReady first.          *)
(***************************************************************************)
MaxSystemPrompts == 2

PromiseOf(name, state) == [name |-> name, state |-> state]

\* config.mcpServers, by server name
ConfiguredServers == {<<>>, <<"s1">>, <<"s1", "s2">>}

pendingPromises(names) == [i \in 1..Len(names) |-> PromiseOf(names[i], "pending")]

\* a connect whose rejection is not caught
initialPromise_uncaught(connected) == IF connected THEN "fulfilled" ELSE "rejected"

\* try { await connect(mcpConfig) } catch { warn }: fulfilled either way
initialPromise(connected) == "fulfilled"

\* a request that does not wait for the connects
ensureMcpReady_noWait(promises) == TRUE

\* await Promise.all(promises) has settled: every promise is fulfilled, or
\* one is rejected
ensureMcpReady(promises) ==
    \/ \A i \in 1..Len(promises) : promises[i].state # "pending"
    \/ \E i \in 1..Len(promises) : promises[i].state = "rejected"

\* the prompts addSystemPrompt is called with
SystemPrompts == {"", "  ", "Be brief", "Be kind"}

\* input.systemPrompts of a call
InputSystemPrompts == {<<>>, <<"Be formal">>}

\* the checks of addSystemPrompt
validPrompt(prompt) == prompt # "" /\ trimmedLength(prompt) > 0

\* request.system: input.systemPrompts.map((text) => ({ text })), absent
\* (the empty sequence here) when the input has none
requestSystem(inputPrompts) ==
    [i \in 1..Len(inputPrompts) |-> [text |-> inputPrompts[i]]]

notRequest == <<memVars, retryVars, filterVars, streamVars, turnVars, sessionVars, poolVars,
                lifeVars, clockVars, execVars, histVars, equivVars, asyncVars>>

\* the agent once its constructor has returned
RequestInit ==
    /\ MemIdle /\ maxMessages = DEFAULT_MAX_MESSAGES /\ maxTokens = DEFAULT_MAX_TOKENS
    /\ RetryIdle /\ FilterIdle /\ StreamIdle /\ TurnIdle /\ SessionIdle /\ PoolIdle /\ LifeIdle
    /\ ClockIdle /\ ExecIdle /\ HistIdle /\ EquivIdle /\ AsyncIdle
    /\ localTools \in {<<>>, <<SearchTool>>}
    /\ connections = <<>>
    /\ toolsOut = [op |-> "none"]
    /\ \E names \in ConfiguredServers : mcpConnectionPromises = pendingPromises(names)
    /\ initWarnings = {}
    /\ configSystemPrompts = <<>>
    /\ requestPc = "idle"
    /\ requestInput = <<>>

\* the connect started by the constructor for server i settles
InitialConnectSettles(i, connected, names) ==
    /\ i \in 1..Len(mcpConnectionPromises)
    /\ mcpConnectionPromises[i].state = "pending"
    /\ mcpConnectionPromises' =
           [mcpConnectionPromises EXCEPT ![i].state = initialPromise(connected)]
    /\ IF connected
       THEN /\ connections' = Append(connections,
                   Connection(mcpConnectionPromises[i].name, "connected",
                              refreshTools(names, configOf(mcpConnectionPromises[i].name).toolFilter,
                                           mcpConnectionPromises[i].name)))
            /\ UNCHANGED initWarnings
       ELSE /\ initWarnings' = initWarnings \cup {mcpConnectionPromises[i].name}
            /\ UNCHANGED connections
    /\ UNCHANGED <<localTools, toolsOut, configSystemPrompts, requestPc, requestInput, notRequest>>

AddSystemPrompt(prompt) ==
    /\ Len(configSystemPrompts) < MaxSystemPrompts
    /\ configSystemPrompts' =
           IF validPrompt(prompt) THEN Append(configSystemPrompts, prompt)
           ELSE configSystemPrompts
    /\ UNCHANGED <<toolVars, mcpConnectionPromises, initWarnings, requestPc, requestInput,
                   notRequest>>

\* a turn builds the request of a model call, up to the await of ensureMcpReady
RequestBegin(inputPrompts) ==
    /\ requestPc \in {"idle", "built"}
    /\ requestPc' = "awaiting"
    /\ requestInput' = inputPrompts
    /\ UNCHANGED <<toolVars, mcpConnectionPromises, initWarnings, configSystemPrompts,
                   notRequest>>

\* ensureMcpReady has settled: the request is completed with the tool specs,
\* or the rejection of a connect makes the turn fail
RequestBuilt ==
    /\ requestPc = "awaiting"
    /\ ensureMcpReady(mcpConnectionPromises)
    /\ IF \E i \in 1..Len(mcpConnectionPromises) : mcpConnectionPromises[i].state = "rejected"
       THEN /\ requestPc' = "failed"
            /\ UNCHANGED <<toolsOut, mcpConnectionPromises>>
       ELSE /\ requestPc' = "built"
            /\ mcpConnectionPromises' = <<>>
            /\ toolsOut' = [op |-> "buildConverseRequest",
                            tools |-> getAllToolSpecs(localTools, connections),
                            system |-> requestSystem(requestInput)]
    /\ UNCHANGED <<localTools, connections, initWarnings, configSystemPrompts, requestInput,
                   notRequest>>

RequestNext ==
    \/ \E i \in 1..2, connected \in BOOLEAN, names \in ServerCatalogs :
           InitialConnectSettles(i, connected, names)
    \/ \E prompt \in SystemPrompts : AddSystemPrompt(prompt)
    \/ \E inputPrompts \in InputSystemPrompts : RequestBegin(inputPrompts)
    \/ RequestBuilt

SpecRequest == RequestInit /\ [][RequestNext]_vars

\* C27: a model request is completed only when the initial connection
\* attempt of every configured MCP server has settled; a failed attempt does
\* not fail the turn, and the request has no tool of a server whose attempt
\* failed.
C27_RequestAfterInitialConnects ==
    /\ [][(requestPc = "awaiting" /\ requestPc' = "built")
              => \A i \in 1..Len(mcpConnectionPromises) :
                     mcpConnectionPromises[i].state # "pending"]_vars
    /\ [](requestPc # "failed")
    /\ [](toolsOut.op = "buildConverseRequest"
              => \A k \in 1..Len(toolsOut.tools) : toolsOut.tools[k].origin \notin initWarnings)

\* s2 failed to connect, and the request carries the tools of s1 only
C27_Witness ==
    /\ requestPc = "built"
    /\ initWarnings = {"s2"}
    /\ Len(connections) = 1 /\ connections[1].name = "s1"
    /\ toolsOut.op = "buildConverseRequest"
    /\ \E k \in 1..Len(toolsOut.tools) : toolsOut.tools[k].origin = "s1"

\* sub is a subsequence of seq: its elements occur in seq in the same order
RECURSIVE isSubsequence(_, _)
isSubsequence(sub, seq) ==
    IF sub = <<>> THEN TRUE
    ELSE IF seq = <<>> THEN FALSE
    ELSE IF Head(sub) = Head(seq) THEN isSubsequence(Tail(sub), Tail(seq))
    ELSE isSubsequence(sub, Tail(seq))

\* C28: every prompt added by a successful addSystemPrompt is among the
\* system prompts of every model request built afterwards, the added prompts
\* in the order they were added.
C28_AddedPromptsInRequest ==
    [][(requestPc = "awaiting" /\ requestPc' = "built")
           => isSubsequence(requestSystem(configSystemPrompts), toolsOut'.system)]_vars

(***************************************************************************)
(* The two turn loops side by side.  Two agents with the same              *)
(* configuration and the same memory take the same turn, one by converse   *)
(* (processConversationTurn, src/src/agent.ts:271-365), one by             *)
(* converseStream (processStreamingConversationTurn, 712-945); each model  *)
(* call answers both with the same stop reason and content blocks, the     *)
(* stream carrying the blocks one after the other, and each tool call      *)
(* gives both the same result.  A step is one iteration of both loops.     *)
(***************************************************************************)
MaxModelCalls == 9

\* memoryManager.addMessage on a MemoryStore with the default limits
pushMessage(mem, message) ==
    pruneMemory(Append(mem, message), DEFAULT_MAX_MESSAGES, DEFAULT_MAX_TOKENS)

\* the tool-result message of an iteration: one result per tool use, in order
RECURSIVE toolResultsOf(_, _)
toolResultsOf(toolUses, outcome) ==
    IF toolUses = <<>> THEN <<>>
    ELSE LET result == executeTool(<<SearchTool>>, <<>>, Head(toolUses), outcome, "ok")
         IN  <<ToolResultBlock(result.toolUseId, <<TextBlock(result.text)>>, result.status)>>
             \o toolResultsOf(Tail(toolUses), outcome)

IterationResult(memory, calls, continues) ==
    [memory |-> memory, calls |-> calls, continues |-> continues]

\* one iteration of processConversationTurn
bufferedIteration(mem, response, outcome) ==
    LET toolUses == extractToolUses(response.content)
        assistantMessage == Msg("assistant", response.content)
    IN  IF response.stopReason = "tool_use"
        THEN IF toolUses = <<>>
             THEN IterationResult(mem, <<>>, FALSE)
             ELSE IterationResult(
                      pushMessage(pushMessage(mem, assistantMessage),
                                  Msg("user", toolResultsOf(toolUses, outcome))),
                      toolUses, TRUE)
        ELSE IterationResult(pushMessage(mem, assistantMessage), <<>>, FALSE)

\* one iteration of processStreamingConversationTurn
streamedIteration(mem, response, outcome) ==
    LET content == finalContent(response.content, response.stopReason)
        toolUses == extractToolUses(content)
        appended == pushMessage(mem, Msg("assistant", content))
    IN  IF response.stopReason = "tool_use" /\ toolUses # <<>>
        THEN IterationResult(
                 pushMessage(appended, Msg("user", toolResultsOf(toolUses, outcome))),
                 toolUses, TRUE)
        ELSE IterationResult(appended, <<>>, FALSE)

\* what the model may answer to both
EquivResponses ==
    ModelResponses \cup {ModelResponse("guardrail_intervened", <<>>)}

notEquiv == <<coreVars, clockVars, execVars, histVars, requestVars, asyncVars>>

\* both agents have appended the user message
EquivInit ==
    /\ MemIdle /\ maxMessages = DEFAULT_MAX_MESSAGES /\ maxTokens = DEFAULT_MAX_TOKENS
    /\ RetryIdle /\ FilterIdle /\ ToolsIdle /\ StreamIdle /\ TurnIdle /\ SessionIdle
    /\ PoolIdle /\ LifeIdle
    /\ ClockIdle /\ ExecIdle /\ HistIdle /\ RequestIdle /\ AsyncIdle
    /\ bufferedMemory = <<FirstUserMessage>>
    /\ streamedMemory = <<FirstUserMessage>>
    /\ bufferedCalls = <<>>
    /\ streamedCalls = <<>>
    /\ equivPc = "loop"
    /\ equivModelCalls = 0

\* one iteration of both loops on the same model output and tool results
EquivIteration(response, outcome) ==
    LET buffered == bufferedIteration(bufferedMemory, response, outcome)
        streamed == streamedIteration(streamedMemory, response, outcome)
    IN  /\ equivPc = "loop" /\ equivModelCalls < MaxModelCalls
        /\ equivModelCalls' = equivModelCalls + 1
        /\ bufferedMemory' = buffered.memory
        /\ streamedMemory' = streamed.memory
        /\ bufferedCalls' = bufferedCalls \o buffered.calls
        /\ streamedCalls' = streamedCalls \o streamed.calls
        /\ equivPc' = IF buffered.continues /\ streamed.continues THEN "loop"
                      ELSE IF ~buffered.continues /\ ~streamed.continues THEN "done"
                      ELSE "diverged"
        /\ UNCHANGED notEquiv

\* every tool call returns its handler's result, to both agents
EquivNext ==
    \E response \in EquivResponses, outcome \in {"returns"} :
        EquivIteration(response, outcome)

SpecEquiv == EquivInit /\ [][EquivNext]_vars

\* C29: a turn that completes within 9 model calls leaves the same messages
\* in memory and has executed the same tool calls in the same order, whether
\* it was taken by converse or by converseStream.
C29_SameMemoryAndToolCalls ==
    /\ equivPc # "diverged"
    /\ equivPc = "done" =>
           /\ bufferedMemory = streamedMemory
           /\ bufferedCalls = streamedCalls

(***************************************************************************)
(* The accumulation of tool inputs.  The loop keeps one string,            *)
(* currentToolUseInput, for the whole model call: a tool-use               *)
(* contentBlockStart empties it, every tool-use delta is added to it       *)
(* whatever its index, and contentBlockStop parses it into the block at    *)
(* the event's index (src/src/agent.ts:735, 742-786).                      *)
(***************************************************************************)
MaxToolEvents == 5

\* the events of tool-use blocks
ToolEvents ==
    {event \in ContentEvents : event.type = "contentBlockStop" \/ event.kind = "toolUse"}

\* one pass of the loop over the stream's events
AccumulateEvent(event) ==
    /\ streamPc = "streaming" /\ Len(streamEvents) < MaxToolEvents
    /\ streamEvents' = Append(streamEvents, event)
    /\ accumulatedContent' =
           CASE event.type = "contentBlockStart" -> onContentBlockStart(accumulatedContent, event)
             [] event.type = "contentBlockDelta" /\ event.kind = "text" ->
                    onTextDelta(accumulatedContent, event)
             [] event.type = "contentBlockStop" ->
                    onContentBlockStop(accumulatedContent, event, currentToolUseInput)
             [] OTHER -> accumulatedContent
    /\ currentToolUseInput' =
           CASE event.type = "contentBlockStart" /\ event.kind = "toolUse" -> ""
             [] event.type = "contentBlockDelta" /\ event.kind = "toolUse" ->
                    currentToolUseInput \o event.text
             [] OTHER -> currentToolUseInput
    /\ UNCHANGED <<streamPc, stopReason, memVars, notStream>>

AccumulateNext ==
    \/ \E event \in ToolEvents : AccumulateEvent(event)
    \/ \E reason \in {"tool_use"} : StreamMessageStop(reason)
    \/ StreamEnd

SpecAccumulate == StreamInit /\ [][AccumulateNext]_vars

\* the positions of the events of this type addressed to index i
eventsAt(events, type, i) ==
    {k \in 1..Len(events) : events[k].type = type /\ events[k].contentBlockIndex = i}

\* the input fragments addressed to index i, concatenated in order
RECURSIVE fragmentsTo(_, _)
fragmentsTo(events, i) ==
    IF events = <<>> THEN ""
    ELSE LET e == events[Len(events)]
             before == fragmentsTo(SubSeq(events, 1, Len(events) - 1), i)
         IN  IF e.type = "contentBlockDelta" /\ e.kind = "toolUse" /\ e.contentBlockIndex = i
             THEN before \o e.text ELSE before

\* every block is opened at most once and closed once, its fragments coming
\* between its start and its stop; blocks may overlap one another
wellFormedBlocks(events) ==
    \A i \in StreamIndexes :
        /\ Cardinality(eventsAt(events, "contentBlockStart", i)) <= 1
        /\ Cardinality(eventsAt(events, "contentBlockStop", i))
               = Cardinality(eventsAt(events, "contentBlockStart", i))
        /\ \A d \in eventsAt(events, "contentBlockDelta", i) :
               /\ \E s \in eventsAt(events, "contentBlockStart", i) : s < d
               /\ \E s \in eventsAt(events, "contentBlockStop", i) : d < s
        /\ \A s \in eventsAt(events, "contentBlockStart", i) :
               \A t \in eventsAt(events, "contentBlockStop", i) : s < t

\* C30: in the assistant message appended after the stream, the input of
\* every tool-use block is the parse of the concatenation of exactly the
\* input fragments addressed to the block's index ("{}" when it does not
\* parse), whatever the interleaving of the blocks' events.
C30_ToolInputPerBlock ==
    (lastOp.msg.role = "assistant" /\ wellFormedBlocks(streamEvents)) =>
        \A i \in StreamIndexes :
            eventsAt(streamEvents, "contentBlockStart", i) # {} =>
                /\ i + 1 <= Len(lastOp.msg.content)
                /\ lastOp.msg.content[i + 1].type = "toolUse"
                /\ lastOp.msg.content[i + 1].input = parseToolInput(fragmentsTo(streamEvents, i))

\* C31: in a reconnection cycle against a server that never accepts a
\* connection, the connection attempts made to the server (the calls of
\* connect()) number at most maxAttempts.
C31_ConnectsWithinMaxAttempts ==
    connectCalls <= reconnectConfig.maxAttempts

\* C32: when the long-term fetch fails during loadSession, the user message
\* converse / converseStream adds next (src/src/agent.ts:208-224, 644-659) is
\* the whole history of the turn's first model request: no message of an
\* earlier turn or of another session is in memory with it.
C32_FailedFetchEmptyHistory ==
    [][(lastOp.op = "loadSessionFailed" /\ lastOp'.op = "addMessage")
           => shortTermMemory' \in {<<>>, <<lastOp'.msg>>}]_vars


\* C33: executeWithRetry retries a failed call that raised an APIError exactly
\* when the error's retryable flag is true: a wait for a retry follows only an
\* APIError whose flag is true, an APIError whose flag is false is re-thrown
\* by the invocation that raised it, and one whose flag is true is re-thrown
\* only by invocation maxRetries + 1.
C33_RetryIffRetryableFlag ==
    lastError.cls = "APIError" =>
        /\ retryPc = "sleeping" => lastError.retryable
        /\ (retryPc = "thrown" /\ lastError.retryable)
              => invocations = retryConfig.maxRetries + 1
        /\ (~lastError.retryable /\ invocations >= 1) => retryPc = "thrown"


(***************************************************************************)
(* McpClientManager.connect and close as the event loop interleaves them   *)
(* (src/src/mcp/client-manager.ts:90-137, 264-294).  connect tests the     *)
(* registry, constructs a McpServerConnection, awaits its connect() and    *)
(* only then stores it with Map.set; close starts disconnect() on every    *)
(* registered connection, awaits them all and then clears the registry.    *)
(* Other calls run at each await.  opened holds the connection objects in  *)
(* the order they were constructed; here the registry holds, for each      *)
(* name, the index in opened of the object stored under it.                *)
(***************************************************************************)
MaxOpened == 3

RegistryEntry(name, id) == [name |-> name, id |-> id]

\* the ids the for-of loop of close() calls disconnect() on
registeredIds(conns) == {conns[i].id : i \in 1..Len(conns)}

\* this.connections.set(config.name, connection) once connection.connect()
\* has resolved
connectRegisters(conns, name, id) == mapSet(conns, RegistryEntry(name, id))

notAsync == <<memVars, retryVars, filterVars, streamVars, turnVars, sessionVars, poolVars,
              lifeVars, clockVars, execVars, histVars, requestVars, equivVars>>

AsyncInit == PoolInit

\* connect(config) up to its await: the duplicate test, then the new
\* McpServerConnection whose connect() is started.  The connect calls
\* followed are those begun before close() is called.
AsyncConnectBegin(config) ==
    /\ closePc = "idle"
    /\ Len(opened) < MaxOpened
    /\ IF hasConnection(connections, config.name)
       THEN /\ lastConnect' = [name |-> config.name, thrown |-> "Error"]
            /\ UNCHANGED opened
       ELSE /\ opened' = Append(opened, [name |-> config.name, state |-> "connecting"])
            /\ UNCHANGED lastConnect
    /\ UNCHANGED <<closePc, closing, toolVars, notAsync>>

\* connection.connect() of the object opened[id] settles and connect(config)
\* resumes: Map.set on success, the error re-thrown on failure
AsyncConnectSettle(id, handshake) ==
    /\ id \in 1..Len(opened)
    /\ opened[id].state = "connecting"
    /\ IF handshake = "ok"
       THEN /\ opened' = [opened EXCEPT ![id].state = "connected"]
            /\ connections' = connectRegisters(connections, opened[id].name, id)
            /\ lastConnect' = [name |-> opened[id].name, thrown |-> "none"]
       ELSE /\ opened' = [opened EXCEPT ![id].state = "error"]
            /\ lastConnect' = [name |-> opened[id].name, thrown |-> "McpConnectionError"]
            /\ UNCHANGED connections
    /\ UNCHANGED <<closePc, closing, localTools, toolsOut, notAsync>>

\* close() up to await Promise.all: disconnect() is started on every
\* connection the registry holds
AsyncCloseBegin ==
    /\ closePc = "idle"
    /\ closePc' = "closing"
    /\ closing' = registeredIds(connections)
    /\ UNCHANGED <<opened, lastConnect, toolVars, notAsync>>

\* the disconnects have settled (each leaves its connection disconnected,
\* src/src/mcp/connection.ts:227-270); close() clears the registry and returns
AsyncCloseEnd ==
    /\ closePc = "closing"
    /\ closePc' = "returned"
    /\ opened' = [id \in 1..Len(opened) |->
                     IF id \in closing THEN [opened[id] EXCEPT !.state = "disconnected"]
                     ELSE opened[id]]
    /\ connections' = <<>>
    /\ closing' = {}
    /\ UNCHANGED <<lastConnect, localTools, toolsOut, notAsync>>

AsyncNext ==
    \/ \E config \in PoolConfigs : AsyncConnectBegin(config)
    \/ \E id \in 1..MaxOpened, handshake \in CallOutcomes : AsyncConnectSettle(id, handshake)
    \/ AsyncCloseBegin
    \/ AsyncCloseEnd

SpecPoolAsync == AsyncInit /\ [][AsyncNext]_vars

liveConnections(name) ==
    {id \in 1..Len(opened) : opened[id].name = name /\ opened[id].state = "connected"}

\* C34: for any interleaving of connect calls at most one connection per
\* server name is live, and a registered connection is never replaced in the
\* registry by another one.
C34_OneLiveConnectionPerName ==
    [][ /\ \A name \in PoolServerNames : Cardinality(liveConnections(name)') <= 1
        /\ \A i \in 1..Len(connections) :
              \A j \in 1..Len(connections') :
                 connections'[j].name = connections[i].name
                    => connections'[j].id = connections[i].id ]_vars

\* C35: once close() has returned, no connection the pool opened is still
\* connected, a connection whose connect call was in flight when close() was
\* called included.
C35_NoConnectionOutlivesClose ==
    closePc = "returned" => \A id \in 1..Len(opened) : opened[id].state # "connected"


\* C36: the history a turn's first model request carries, which is the
\* buffer as addMessage leaves it for the submitted user message
\* (src/src/agent.ts:215-227, 437-441), is non-empty and ends with that
\* message, whatever its size relative to maxTokens.
C36_FirstRequestEndsWithUserMessage ==
    [][(lastOp'.op = "addMessage" /\ lastOp'.msg.role = "user")
          => /\ shortTermMemory' # <<>>
             /\ shortTermMemory'[Len(shortTermMemory')] = lastOp'.msg]_vars


\* a model request is about to be built from the conversation history
requestPoint == turnPc = "loop" /\ loopContinues(iteration, maxIterationsOf(turnPath))

rolesAlternate(history) ==
    /\ history # <<>>
    /\ history[1].role = "user"
    /\ \A i \in 1..(Len(history) - 1) : history[i].role # history[i + 1].role

\* C37: in every model request the history begins with a user message and
\* the roles alternate strictly between user and assistant, across completed
\* turns, failed turns and prunes.
C37_RolesAlternate == requestPoint => rolesAlternate(shortTermMemory)

(***************************************************************************)
(* The same successive calls on agents whose maxMessages differ: the       *)
(* messages a prune removes depend on it (src/src/types/index.ts:323-365). *)
(***************************************************************************)
MaxHistoryMessages == 3

PrunedHistoryInit ==
    \E n \in 2..MaxHistoryMessages :
        turnStart([maxMessages |-> n, maxTokens |-> DEFAULT_MAX_TOKENS])

SpecPrunedHistory == PrunedHistoryInit /\ [][HistoryNext]_vars

\* the tool-use blocks with this id in the assistant messages before message n
usesBefore(history, n, id) ==
    UNION { { <<m, b>> : b \in { b \in 1..Len(history[m].content) :
                                   /\ history[m].content[b].type = "toolUse"
                                   /\ history[m].content[b].toolUseId = id } } :
            m \in { m \in 1..(n - 1) : history[m].role = "assistant" } }

toolResultsPreceded(history) ==
    \A n \in 1..Len(history) : \A c \in 1..Len(history[n].content) :
        history[n].content[c].type = "toolResult"
            => usesBefore(history, n, history[n].content[c].toolUseId) # {}

\* C38: in every model request every tool-result block of the history is
\* preceded by an assistant message that holds the tool-use block with the
\* same id: no prune removes a tool-use message and keeps its tool-result
\* message.
C38_ToolResultsPreceded == requestPoint => toolResultsPreceded(shortTermMemory)


\* the text the appended assistant message stores at content index i
storedTextAt(content, i) ==
    IF i + 1 <= Len(content) /\ content[i + 1].type = "text" THEN content[i + 1].text ELSE ""

\* C39: for each streamed model call and every event sequence, a text delta
\* without a preceding contentBlockStart included, the text the appended
\* assistant message stores at each content index is the in-order
\* concatenation of the text deltas yielded to the caller for that index.
C39_StoredTextIsYieldedText ==
    (streamPc = "appended" /\ lastOp.msg.role = "assistant") =>
        \A i \in StreamIndexes :
            storedTextAt(lastOp.msg.content, i) = textDeltasTo(streamEvents, i)


(***************************************************************************)
(* Tool filters and the ways a tool of a server is reached: the merged     *)
(* catalog of listAllTools, the routing of executeTool and callTool on a   *)
(* connection obtained with getConnection (src/src/mcp/connection.ts:      *)
(* 479-494, src/src/mcp/client-manager.ts:200, 368-394).  The servers are  *)
(* those of the pool and one whose filter is an allow-list.                *)
(***************************************************************************)
FilteredPoolConfigs ==
    PoolConfigs \cup { McpServerConfig("s3", ToolFilter({"search"}, {})) }

filterOfServer(name) ==
    (CHOOSE config \in FilteredPoolConfigs : config.name = name).toolFilter

\* the server's filter removes the tool: it is not in a non-empty
\* allow-list, or it is in the deny-list
removedByFilter(toolName, serverName) ==
    LET filter == filterOfServer(serverName)
    IN  \/ (filter.allowedTools # {} /\ toolName \notin filter.allowedTools)
        \/ toolName \in filter.deniedTools

\* a callTool that sends the request whatever the tool cache holds
connectionCallTool_unchecked(connection, toolName, remote) ==
    IF ~isConnected(connection)
    THEN [calls |-> <<>>, thrown |-> "McpToolExecutionError:not connected"]
    ELSE [calls |-> <<ServerCall(connection.name, "callTool", toolName, remote)>>,
          thrown |-> IF remote = "ok" THEN "none" ELSE "McpToolExecutionError"]

\* McpServerConnection.callTool: the request is sent only by a connected
\* connection whose tool cache has the name
connectionCallTool(connection, toolName, remote) ==
    IF ~isConnected(connection)
    THEN [calls |-> <<>>, thrown |-> "McpToolExecutionError:not connected"]
    ELSE IF ~hasTool(connection, toolName)
    THEN [calls |-> <<>>, thrown |-> "McpToolExecutionError:not found"]
    ELSE [calls |-> <<ServerCall(connection.name, "callTool", toolName, remote)>>,
          thrown |-> IF remote = "ok" THEN "none" ELSE "McpToolExecutionError"]

\* getConnection(name).callTool(toolName, args) on registry entry i
PoolCallTool(i, toolName, remote) ==
    LET result == connectionCallTool(connections[i], toolName, remote)
    IN  /\ i \in 1..Len(connections)
        /\ result.calls = <<>> => remote = "ok"
        /\ poolStep("callTool", toolName,
                    PoolResult(connections, result.calls, result.thrown))

FilteredPoolNext ==
    \/ \E config \in FilteredPoolConfigs, handshake \in CallOutcomes, names \in PoolCatalogs :
          PoolConnect(config, handshake, names, <<>>)
    \/ \E i \in 1..Len(connections) : PoolConnectionDisconnect(i)
    \/ \E failing \in SUBSET PoolServerNames : PoolClose(failing)
    \/ \E toolName \in PoolToolNames, remote \in CallOutcomes :
          PoolExecuteTool(toolName, remote)
    \/ \E i \in 1..Len(connections), toolName \in PoolToolNames, remote \in CallOutcomes :
          PoolCallTool(i, toolName, remote)

SpecFilteredPool == PoolInit /\ [][FilteredPoolNext]_vars

inCatalogOf(conns, toolName, serverName) ==
    \E k \in 1..Len(mcpListAllTools(conns)) :
        /\ mcpListAllTools(conns)[k].name = toolName
        /\ mcpListAllTools(conns)[k].serverName = serverName

\* C40: a tool removed by a server's filter is never invoked on that server:
\* the merged catalog has no entry for it from that server, executeTool never
\* routes it to that server, callTool on that server's connection rejects it
\* and sends nothing, and no operation leaves a callTool request for it.
C40_FilteredToolNeverInvoked ==
    [][ /\ \A i \in 1..Len(connections') : \A toolName \in PoolToolNames :
              removedByFilter(toolName, connections'[i].name) =>
                  /\ ~inCatalogOf(connections', toolName, connections'[i].name)
                  /\ findToolServer(connections', toolName) # i
                  /\ \A remote \in CallOutcomes :
                        /\ connectionCallTool(connections'[i], toolName, remote).calls = <<>>
                        /\ connectionCallTool(connections'[i], toolName, remote).thrown # "none"
        /\ \A k \in 1..Len(serverCalls') :
              serverCalls'[k].op = "callTool"
                  => ~removedByFilter(serverCalls'[k].arg, serverCalls'[k].server) ]_vars

C40_Witness ==
    /\ toolsOut.op = "callTool" /\ toolsOut.arg = "calc"
    /\ toolsOut.thrown = "McpToolExecutionError:not found"
    /\ serverCalls = <<>>
    /\ Len(connections) = 2
    /\ connections[1].name = "s3" /\ connections[2].name = "s2"
    /\ \A i \in 1..2 : /\ isConnected(connections[i])
                       /\ connections[i].fetched = <<"calc", "search">>
                       /\ ~hasTool(connections[i], "calc")

====
